---- MODULE Spec2Model ----
(***************************************************************************)
(* Model of the stage3 dependency-closure materializer (src/src/binary.rs) *)
(* and of the filesystem operations it performs.                           *)
(*                                                                         *)
(* Representation.  A Rust string / Path is a sequence of chunks: the      *)
(* chunk "/" is the path separator, " " and "\t" are whitespace, "\n" is   *)
(* the line break, "=>" is the ldd arrow, and every other chunk is a whole *)
(* word (a file name, a soname, "not", "found", a load address).  The      *)
(* filesystem is one tree (the build host's); the source rootfs and the    *)
(* staging tree are directories of it.  A canonical location is the        *)
(* sequence of names from the root, <<"usr", "lib64", "libc.so.6">>.       *)
(***************************************************************************)
EXTENDS Naturals, Sequences, FiniteSets, TLC

\* fs:    the filesystem (host, source rootfs and staging tree)
\* ldd:   what running ldd on a binary gives, by binary name
\* ctx:   the BuildContext
\* last:  the last call made and what it returned
\* pre:   the filesystem before that call
\* steps: the number of calls made
\* fs0:   the filesystem the behaviour started with
\* calls: the calls made so far (operation and binary)
\* text:  the text given to parse_ldd_output
\* parsed: what parse_ldd_output returned for it
\* pc:    where a catalog loop taken one step at a time stands, and the
\*        steps it has taken
VARIABLES fs, ldd, ctx, last, pre, steps, fs0, calls, text, parsed, pc

vars == <<fs, ldd, ctx, last, pre, steps, fs0, calls, text, parsed, pc>>

(***************************************************************************)
(* Bounds of the model.                                                    *)
(***************************************************************************)
\* operations performed in one behaviour
MaxSteps == 2
\* symbolic links followed in one path resolution before ELOOP
MaxHops == 3
\* lines of a text given to parse_ldd_output
MaxLines == 3

(***************************************************************************)
(* Strings.                                                                *)
(***************************************************************************)
Sl == "/"

\* K applied to the value of x, computed once: sequential composition of
\* the steps of a function body (let r = step(); ... r ... r ...)
Bind(x, K(_)) == CHOOSE out \in {K(v) : v \in {x}} : TRUE

IsWhite(c) == c \in {" ", "\t"}

\* str::starts_with('/')
StartsWithSlash(s) == Len(s) > 0 /\ s[1] = Sl

RECURSIVE TrimStartSlash(_)
\* str::trim_start_matches('/')
TrimStartSlash(s) ==
    IF s # <<>> /\ Head(s) = Sl THEN TrimStartSlash(Tail(s)) ELSE s

\* the chunks that contain the substring "lib64"
HasLib64Chunk(c) == c \in {"lib64", "lib64-compat", "lib64z.so.1"}

\* lib_path.contains("lib64")
ContainsLib64(s) == \E i \in 1..Len(s) : HasLib64Chunk(s[i])

\* the string "/a/b/c" of the names <<"a", "b", "c">>
RECURSIVE AbsStr(_)
AbsStr(names) ==
    IF names = <<>> THEN <<>>
    ELSE <<Sl, Head(names)>> \o AbsStr(Tail(names))

\* the string "a/b/c" of the names <<"a", "b", "c">>
RelStr(names) == Tail(AbsStr(names))

(***************************************************************************)
(* std::path::Path                                                         *)
(***************************************************************************)
\* Path::is_absolute / is_relative
IsAbsolute(p) == StartsWithSlash(p)

\* Path::components without the root: "." and repeated separators vanish
Components(p) == SelectSeq(p, LAMBDA c : c # Sl /\ c # ".")

\* Path::join: an absolute argument replaces the base
Join(base, rel) ==
    IF IsAbsolute(rel) \/ base = <<>> THEN rel
    ELSE IF rel = <<>> THEN base
    ELSE IF base[Len(base)] = Sl THEN base \o rel
    ELSE base \o <<Sl>> \o rel

NoPath == [some |-> FALSE, val |-> <<>>]

SomePath(p) == [some |-> TRUE, val |-> p]

\* Path::file_name: the last component unless it is ".." (or there is none)
FileName(p) ==
    LET cs == Components(p) IN
    IF cs = <<>> \/ cs[Len(cs)] = ".." THEN [some |-> FALSE, val |-> ""]
    ELSE [some |-> TRUE, val |-> cs[Len(cs)]]

\* Path::parent: the path without its last component; None for "/" and ""
Parent(p) ==
    LET cs == Components(p)
        init == SubSeq(cs, 1, Len(cs) - 1)
    IN  IF cs = <<>> THEN NoPath
        ELSE IF IsAbsolute(p)
             THEN SomePath(IF init = <<>> THEN <<Sl>> ELSE AbsStr(init))
             ELSE SomePath(IF init = <<>> THEN <<>> ELSE RelStr(init))

(***************************************************************************)
(* The filesystem: a function from canonical locations to nodes.           *)
(***************************************************************************)
\* the mode make_executable sets: octal 0755
Mode755 == 493

\* the mode of the files of the source tree and of the host: octal 0644
SrcMode == 6 * 64 + 4 * 8 + 4

Dir == [kind |-> "dir"]

File(c, m) == [kind |-> "file", content |-> c, mode |-> m]

Symlink(t) == [kind |-> "symlink", target |-> t]

None == [kind |-> "none"]

\* working directory of the build process
Cwd == <<"work">>

NodeAt(f, loc) ==
    IF loc = <<>> THEN Dir
    ELSE IF loc \in DOMAIN f THEN f[loc] ELSE None

Put(f, loc, n) == [x \in DOMAIN f \cup {loc} |-> IF x = loc THEN n ELSE f[x]]

RECURSIVE Resolve(_, _, _, _, _)
\* Kernel path walk from directory `cur` over the names `rest`.
\*   st = "found":  loc is the canonical location of the existing node
\*   st = "absent": every name but the last resolved, loc is where the
\*                  last would be created
\*   st = "error":  ENOENT / ENOTDIR on the way, or ELOOP
Resolve(f, cur, rest, followLast, fuel) ==
    IF rest = <<>> THEN [st |-> "found", loc |-> cur]
    ELSE
      LET c == Head(rest)
          t == Tail(rest)
      IN  IF c = ".."
          THEN Resolve(f, SubSeq(cur, 1, Len(cur) - 1), t, followLast, fuel)
          ELSE
            LET p == Append(cur, c)
                n == NodeAt(f, p)
            IN  CASE n.kind = "none" ->
                       IF t = <<>> THEN [st |-> "absent", loc |-> p]
                       ELSE [st |-> "error", loc |-> p]
                  [] n.kind = "dir" -> Resolve(f, p, t, followLast, fuel)
                  [] n.kind = "file" ->
                       IF t = <<>> THEN [st |-> "found", loc |-> p]
                       ELSE [st |-> "error", loc |-> p]
                  [] n.kind = "symlink" ->
                       IF t = <<>> /\ ~followLast
                       THEN [st |-> "found", loc |-> p]
                       ELSE IF fuel = 0 \/ n.target = <<>>
                       THEN [st |-> "error", loc |-> p]
                       ELSE Resolve(f,
                                    IF IsAbsolute(n.target) THEN <<>> ELSE cur,
                                    Components(n.target) \o t,
                                    followLast, fuel - 1)

\* stat (followLast) or lstat of the path string p
Lookup(f, p, followLast) ==
    IF p = <<>> THEN [st |-> "error", loc |-> <<>>]
    ELSE Resolve(f, IF IsAbsolute(p) THEN <<>> ELSE Cwd, Components(p),
                 followLast, MaxHops)

\* Path::exists: metadata(p).is_ok(), following symbolic links
Exists(f, p) == Lookup(f, p, TRUE).st = "found"

\* Path::is_symlink: symlink_metadata(p) is a symbolic link
IsSymlink(f, p) ==
    LET r == Lookup(f, p, FALSE)
    IN  r.st = "found" /\ NodeAt(f, r.loc).kind = "symlink"

\* Path::is_dir
IsDir(f, p) ==
    LET r == Lookup(f, p, TRUE)
    IN  r.st = "found" /\ NodeAt(f, r.loc).kind = "dir"

\* fs::read_link (of a path known to be a symbolic link)
ReadLink(f, p) == NodeAt(f, Lookup(f, p, FALSE).loc).target

\* the regular file a path designates, or None
FileAt(f, p) ==
    LET r == Lookup(f, p, TRUE)
    IN  IF r.st = "found" THEN NodeAt(f, r.loc) ELSE None

\* mutant: the file is moved, not copied
FsRename(f, from, to) ==
    LET a == Lookup(f, from, TRUE)
        b == Lookup(f, to, TRUE)
    IN  IF a.st # "found" \/ NodeAt(f, a.loc).kind # "file"
        THEN [ok |-> FALSE, fs |-> f, err |-> "copy: bad source"]
        ELSE IF b.st = "error" \/ b.loc = <<>>
             \/ (b.st = "found" /\ NodeAt(f, b.loc).kind # "file")
        THEN [ok |-> FALSE, fs |-> f, err |-> "copy: bad destination"]
        ELSE [ok |-> TRUE,
              fs |-> [x \in (DOMAIN f \cup {b.loc}) \ {a.loc} |->
                        IF x = b.loc THEN NodeAt(f, a.loc) ELSE f[x]],
              err |-> ""]

\* fs::copy(from, to): the source must be a regular file (through links);
\* the destination is created or truncated through links, its directory
\* must exist; content and permission bits are those of the source
FsCopy(f, from, to) ==
    LET a == Lookup(f, from, TRUE)
        b == Lookup(f, to, TRUE)
    IN  IF a.st # "found" \/ NodeAt(f, a.loc).kind # "file"
        THEN [ok |-> FALSE, fs |-> f, err |-> "copy: bad source"]
        ELSE IF b.st = "error" \/ b.loc = <<>>
             \/ (b.st = "found" /\ NodeAt(f, b.loc).kind # "file")
        THEN [ok |-> FALSE, fs |-> f, err |-> "copy: bad destination"]
        ELSE [ok |-> TRUE, fs |-> Put(f, b.loc, NodeAt(f, a.loc)), err |-> ""]

RECURSIVE CreateDirAll(_, _)
\* fs::create_dir_all: mkdir, creating the missing ancestors first
CreateDirAll(f, p) ==
    LET r == Lookup(f, p, TRUE)
        par == Parent(p)
    IN  IF IsDir(f, p) THEN [ok |-> TRUE, fs |-> f, err |-> ""]
        ELSE IF r.st = "absent" /\ ~IsSymlink(f, p)
        THEN [ok |-> TRUE, fs |-> Put(f, r.loc, Dir), err |-> ""]
        ELSE IF r.st = "error" /\ par.some /\ ~Exists(f, par.val)
        THEN Bind(CreateDirAll(f, par.val), LAMBDA up :
               LET r2 == Lookup(up.fs, p, TRUE)
               IN  IF up.ok /\ r2.st = "absent"
                   THEN [ok |-> TRUE, fs |-> Put(up.fs, r2.loc, Dir), err |-> ""]
                   ELSE [ok |-> FALSE, fs |-> up.fs, err |-> "mkdir failed"])
        ELSE [ok |-> FALSE, fs |-> f, err |-> "mkdir failed"]

(***************************************************************************)
(* parse_ldd_output                                                        *)
(***************************************************************************)
\* the elements of a set of numbers in increasing order
Sorted(ns) ==
    [k \in 1..Cardinality(ns) |->
       CHOOSE p \in ns : Cardinality({q \in ns : q < p}) = k - 1]

\* the pieces of s between occurrences of the chunk sep; acc is put before
\* the first piece (str::split: n separators give n + 1 pieces)
SplitOn(s, sep, acc) ==
    Bind(s, LAMBDA v :
      Bind(Sorted({0, Len(v) + 1} \cup {i \in 1..Len(v) : v[i] = sep}),
           LAMBDA cut :
        [k \in 1..(Len(cut) - 1) |->
           (IF k = 1 THEN acc ELSE <<>>)
           \o SubSeq(v, cut[k] + 1, cut[k + 1] - 1)]))

\* str::lines: the pieces between line breaks, without a final empty piece
Lines(output) ==
    LET ps == SplitOn(output, "\n", <<>>)
    IN  IF ps[Len(ps)] = <<>> THEN SubSeq(ps, 1, Len(ps) - 1) ELSE ps

RECURSIVE TrimStart(_)
TrimStart(s) == IF s # <<>> /\ IsWhite(Head(s)) THEN TrimStart(Tail(s)) ELSE s

RECURSIVE TrimEnd(_)
TrimEnd(s) ==
    IF s # <<>> /\ IsWhite(s[Len(s)]) THEN TrimEnd(SubSeq(s, 1, Len(s) - 1))
    ELSE s

\* str::trim
Trim(s) == TrimEnd(TrimStart(s))

RECURSIVE TakeWord(_)
TakeWord(s) ==
    IF s = <<>> \/ IsWhite(Head(s)) THEN <<>>
    ELSE <<Head(s)>> \o TakeWord(Tail(s))

\* mutant: the whole rest of the string is taken as the token
FirstTokenToEnd(s) ==
    LET t == TrimStart(s)
    IN  IF t = <<>> THEN NoPath ELSE SomePath(t)

\* str::split_whitespace().next(): the first run of non-blank chunks
FirstToken(s) ==
    LET t == TrimStart(s)
    IN  IF t = <<>> THEN NoPath ELSE SomePath(TakeWord(t))

\* line.contains("not found")
ContainsNotFound(s) ==
    \E i \in 1..Len(s) :
        /\ i + 2 <= Len(s)
        /\ s[i] = "not" /\ s[i + 1] = " " /\ s[i + 2] = "found"

\* line.contains("=>")
ContainsArrow(s) == \E i \in 1..Len(s) : s[i] = "=>"

\* mutant: the token after the arrow is taken whatever it begins with
ParseLineAnyToken(raw) ==
    LET line == Trim(raw)
        tok == FirstToken(line)
        path == FirstToken(SplitOn(line, "=>", <<>>)[2])
    IN  IF ContainsNotFound(line)
        THEN [libs |-> <<>>,
              warn |-> IF tok.some
                       THEN <<[w |-> "library not found", lib |-> tok.val,
                               cause |-> ""]>>
                       ELSE <<>>]
        ELSE IF ContainsArrow(line)
        THEN [libs |-> IF path.some THEN <<path.val>> ELSE <<>>, warn |-> <<>>]
        ELSE IF StartsWithSlash(line)
        THEN [libs |-> IF tok.some THEN <<tok.val>> ELSE <<>>, warn |-> <<>>]
        ELSE [libs |-> <<>>, warn |-> <<>>]

\* mutant: the arrow rule is tried before the not-found rule
ParseLineArrowFirst(raw) ==
    LET line == Trim(raw)
        tok == FirstToken(line)
        path == FirstToken(SplitOn(line, "=>", <<>>)[2])
    IN  IF ContainsArrow(line) /\ path.some /\ StartsWithSlash(path.val)
        THEN [libs |-> <<path.val>>, warn |-> <<>>]
        ELSE IF ContainsNotFound(line)
        THEN [libs |-> <<>>,
              warn |-> IF tok.some
                       THEN <<[w |-> "library not found", lib |-> tok.val,
                               cause |-> ""]>>
                       ELSE <<>>]
        ELSE IF ~ContainsArrow(line) /\ StartsWithSlash(line)
        THEN [libs |-> IF tok.some THEN <<tok.val>> ELSE <<>>, warn |-> <<>>]
        ELSE [libs |-> <<>>, warn |-> <<>>]

\* what one (untrimmed) line of the report contributes:
\* at most one path and at most one warning
ParseLine(raw) ==
    LET line == Trim(raw)
        tok == FirstToken(line)
        part == SplitOn(line, "=>", <<>>)[2]
        path == FirstToken(part)
    IN  IF ContainsNotFound(line)
        THEN [libs |-> <<>>,
              warn |-> IF tok.some
                       THEN <<[w |-> "library not found", lib |-> tok.val,
                               cause |-> ""]>>
                       ELSE <<>>]
        ELSE IF ContainsArrow(line)
        THEN [libs |-> IF path.some /\ StartsWithSlash(path.val)
                       THEN <<path.val>> ELSE <<>>,
              warn |-> <<>>]
        ELSE IF StartsWithSlash(line)
        THEN [libs |-> IF tok.some THEN <<tok.val>> ELSE <<>>, warn |-> <<>>]
        ELSE [libs |-> <<>>, warn |-> <<>>]

RECURSIVE ParseLinesReversed(_)
\* mutant: the paths of later lines come first
ParseLinesReversed(ls) ==
    IF ls = <<>> THEN [libs |-> <<>>, warn |-> <<>>]
    ELSE LET h == ParseLine(Head(ls))
             r == ParseLinesReversed(Tail(ls))
         IN  [libs |-> r.libs \o h.libs, warn |-> h.warn \o r.warn]

RECURSIVE ParseLines(_)
ParseLines(ls) ==
    IF ls = <<>> THEN [libs |-> <<>>, warn |-> <<>>]
    ELSE LET h == ParseLine(Head(ls))
             r == ParseLines(Tail(ls))
         IN  [libs |-> h.libs \o r.libs, warn |-> h.warn \o r.warn]

\* parse_ldd_output: always Ok(libs); warn is what it prints
parse_ldd_output(output) ==
    LET r == ParseLines(Lines(output))
    IN  [ok |-> TRUE, libs |-> r.libs, warn |-> r.warn]

(***************************************************************************)
(* copy_library                                                            *)
(***************************************************************************)
\* a Result<()> with the filesystem the call leaves
OkRes(f) == [ok |-> TRUE, fs |-> f, err |-> ""]

ErrRes(f, e) == [ok |-> FALSE, fs |-> f, err |-> e]

\* mutant: the host path is tried before the origin root
src_candidates_host_first(rootfs, lib_path) ==
    << lib_path,
       Join(rootfs, TrimStartSlash(lib_path)),
       Join(Join(rootfs, <<"usr">>), TrimStartSlash(lib_path)) >>

\* the three places a library is looked for, in order
src_candidates(rootfs, lib_path) ==
    << Join(rootfs, TrimStartSlash(lib_path)),
       Join(Join(rootfs, <<"usr">>), TrimStartSlash(lib_path)),
       lib_path >>

\* mutant: a candidate counts as soon as it is a directory entry (lstat)
FindEntry(f, cands) ==
    IF \E i \in 1..Len(cands) : Lookup(f, cands[i], FALSE).st = "found"
    THEN CHOOSE i \in 1..Len(cands) :
            /\ Lookup(f, cands[i], FALSE).st = "found"
            /\ \A j \in 1..(i - 1) : Lookup(f, cands[j], FALSE).st # "found"
    ELSE 0

\* Iterator::find(|p| p.exists()): the index of the first existing
\* candidate, 0 when there is none
FindExisting(f, cands) ==
    IF \E i \in 1..Len(cands) : Exists(f, cands[i])
    THEN CHOOSE i \in 1..Len(cands) :
            /\ Exists(f, cands[i])
            /\ \A j \in 1..(i - 1) : ~Exists(f, cands[j])
    ELSE 0

\* mutant: "lib64" is looked for in the directory part of the path only
LibDestDirByParent(lib_path) ==
    IF Parent(lib_path).some /\ ContainsLib64(Parent(lib_path).val)
    THEN RelStr(<<"usr", "lib64">>)
    ELSE RelStr(<<"usr", "lib">>)

\* the directory of the staging tree a library lands in
LibDestDir(lib_path) ==
    IF ContainsLib64(lib_path) THEN RelStr(<<"usr", "lib64">>)
    ELSE RelStr(<<"usr", "lib">>)

\* dest_path of copy_library (the path has a file name)
LibDestPath(staging, lib_path) ==
    Join(Join(staging, LibDestDir(lib_path)), <<FileName(lib_path).val>>)

\* mutant: a relative target is left to resolve in the working directory
ActualSrcUnjoined(src, link_target) == link_target

\* actual_src: the link target, a relative one joined to the link's directory
ActualSrc(src, link_target) ==
    IF ~IsAbsolute(link_target) THEN Join(Parent(src).val, link_target)
    ELSE link_target

\* the copy made for a source that is a symbolic link
CopySymlinked(f, rootfs, src, dest_path) ==
    LET link_target == ReadLink(f, src)
        actual_src == ActualSrc(src, link_target)
        rootfs_target == Join(rootfs, TrimStartSlash(link_target))
    IN  IF ~IsAbsolute(link_target) /\ ~Parent(src).some
        THEN ErrRes(f, "Library path has no parent")
        ELSE IF Exists(f, actual_src) THEN FsCopy(f, actual_src, dest_path)
        ELSE IF Exists(f, rootfs_target) THEN FsCopy(f, rootfs_target, dest_path)
        ELSE FsCopy(f, src, dest_path)

\* mutant: the copy is made whether or not the destination exists
CopyToDestAlways(f, rootfs, src, dest_path) ==
    IF IsSymlink(f, src) THEN CopySymlinked(f, rootfs, src, dest_path)
    ELSE FsCopy(f, src, dest_path)

\* the body of copy_library once source and destination are known
CopyToDest(f, rootfs, src, dest_path) ==
    IF ~Exists(f, dest_path)
    THEN IF IsSymlink(f, src) THEN CopySymlinked(f, rootfs, src, dest_path)
         ELSE FsCopy(f, src, dest_path)
    ELSE OkRes(f)

\* mutant: the destination is tested before the source is looked for
copy_library_dest_first(f, rootfs, lib_path, staging) ==
    IF FileName(lib_path).some /\ Exists(f, LibDestPath(staging, lib_path))
    THEN OkRes(f)
    ELSE Bind(FindExisting(f, src_candidates(rootfs, lib_path)), LAMBDA i :
           IF i = 0 THEN ErrRes(f, "Could not find library")
           ELSE IF ~FileName(lib_path).some
           THEN ErrRes(f, "Library path has no filename")
           ELSE CopyToDest(f, rootfs, src_candidates(rootfs, lib_path)[i],
                           LibDestPath(staging, lib_path)))

copy_library(f, rootfs, lib_path, staging) ==
    Bind(FindExisting(f, src_candidates(rootfs, lib_path)), LAMBDA i :
      IF i = 0 THEN ErrRes(f, "Could not find library")
      ELSE IF ~FileName(lib_path).some
      THEN ErrRes(f, "Library path has no filename")
      ELSE CopyToDest(f, rootfs, src_candidates(rootfs, lib_path)[i],
                      LibDestPath(staging, lib_path)))

(***************************************************************************)
(* find_binary, find_sbin_binary, make_executable                          *)
(***************************************************************************)
FirstExisting(f, cands) ==
    LET i == FindExisting(f, cands)
    IN  IF i = 0 THEN NoPath ELSE SomePath(cands[i])

BinDirs ==
    << RelStr(<<"usr", "bin">>), <<"bin">>, RelStr(<<"usr", "sbin">>), <<"sbin">> >>

SbinDirs ==
    << RelStr(<<"usr", "sbin">>), <<"sbin">>, RelStr(<<"usr", "bin">>), <<"bin">> >>

CandidatesIn(rootfs, dirs, binary) ==
    [i \in 1..Len(dirs) |-> Join(Join(rootfs, dirs[i]), <<binary>>)]

find_binary(f, rootfs, binary) ==
    FirstExisting(f, CandidatesIn(rootfs, BinDirs, binary))

\* mutant: the four directories in the reverse of find_binary's order
find_sbin_binary_reversed(f, rootfs, binary) ==
    FirstExisting(f, CandidatesIn(rootfs,
                                  [i \in 1..Len(BinDirs) |->
                                      BinDirs[Len(BinDirs) + 1 - i]],
                                  binary))

find_sbin_binary(f, rootfs, binary) ==
    FirstExisting(f, CandidatesIn(rootfs, SbinDirs, binary))

\* mutant: the permission bits are left as fs::copy made them
make_executable_keeps_mode(f, path) == OkRes(f)

\* mutant: chmod +x, the execute bits are added to the mode the file has
make_executable_adds_x(f, path) ==
    LET r == Lookup(f, path, TRUE)
        n == NodeAt(f, r.loc)
        or1(d) == d + (1 - (d % 2))
    IN  IF r.st # "found" THEN ErrRes(f, "Failed to read metadata")
        ELSE IF n.kind = "file"
        THEN OkRes(Put(f, r.loc,
                       File(n.content,
                            or1(n.mode \div 64) * 64
                              + or1((n.mode \div 8) % 8) * 8 + or1(n.mode % 8))))
        ELSE OkRes(f)

\* fs::metadata, set_mode(0o755), fs::set_permissions
make_executable(f, path) ==
    LET r == Lookup(f, path, TRUE)
        n == NodeAt(f, r.loc)
    IN  IF r.st # "found" THEN ErrRes(f, "Failed to read metadata")
        ELSE IF n.kind = "file"
        THEN OkRes(Put(f, r.loc, File(n.content, Mode755)))
        ELSE OkRes(f)

(***************************************************************************)
(* The closure orchestrators.  An ldd run is a record                      *)
(*   [spawned, success, stdout]: whether the process could be started,     *)
(* whether it exited with status 0, and what it wrote.  A call returns     *)
(*   [ok, val, err, fs, log]: Ok(val) or Err(err), the filesystem it       *)
(* leaves and the warnings it printed.                                     *)
(***************************************************************************)
Warn(w, lib, cause) == [w |-> w, lib |-> lib, cause |-> cause]

RECURSIVE CopyLibsStopAtFailure(_, _, _, _)
\* mutant: the loop ends at the first library that fails
CopyLibsStopAtFailure(f, c, libs, log) ==
    IF libs = <<>> THEN [fs |-> f, log |-> log]
    ELSE Bind(copy_library(f, c.source, Head(libs), c.staging), LAMBDA r :
           IF r.ok THEN CopyLibsStopAtFailure(r.fs, c, Tail(libs), log)
           ELSE [fs |-> r.fs,
                 log |-> Append(log, Warn("Failed to copy library",
                                          Head(libs), r.err))])

RECURSIVE CopyLibs(_, _, _, _)
\* for lib in &libs { if let Err(e) = copy_library(..) { println!(..) } }
CopyLibs(f, c, libs, log) ==
    IF libs = <<>> THEN [fs |-> f, log |-> log]
    ELSE Bind(copy_library(f, c.source, Head(libs), c.staging), LAMBDA r :
           CopyLibs(r.fs, c, Tail(libs),
                    IF r.ok THEN log
                    ELSE Append(log, Warn("Failed to copy library",
                                          Head(libs), r.err))))

\* create_dir_all(dest.parent())?; fs::copy(..)?; make_executable(..)?
InstallBinary(f, bin_path, dest) ==
    Bind(CreateDirAll(f, Parent(dest).val), LAMBDA d :
      IF ~d.ok THEN d
      ELSE Bind(FsCopy(d.fs, bin_path, dest), LAMBDA cp :
             IF ~cp.ok THEN cp ELSE make_executable(cp.fs, dest)))

\* mutant: a destination that is already there is an error
InstallExclusive(f, bin_path, dest) ==
    IF ~Exists(f, dest) THEN InstallBinary(f, bin_path, dest)
    ELSE ErrRes(f, "destination exists")

\* the binary copy of copy_binary_with_libs: only if the destination is absent
InstallIfAbsent(f, bin_path, dest) ==
    IF ~Exists(f, dest) THEN InstallBinary(f, bin_path, dest) ELSE OkRes(f)

\* mutant: a library that failed makes the call return the failure
QueryAndCopyLibsStrict(f, c, run) ==
    IF run.spawned /\ run.success
    THEN Bind(parse_ldd_output(run.stdout), LAMBDA p :
           Bind(CopyLibs(f, c, p.libs, <<>>), LAMBDA r :
             IF r.log # <<>>
             THEN [ok |-> FALSE, val |-> FALSE, err |-> r.log[1].cause,
                   fs |-> r.fs, log |-> p.warn]
             ELSE [ok |-> TRUE, val |-> TRUE, err |-> "", fs |-> r.fs,
                   log |-> p.warn]))
    ELSE [ok |-> TRUE, val |-> TRUE, err |-> "", fs |-> f, log |-> <<>>]

\* mutant: a failed ldd run is returned as an error
QueryAndCopyLibsFatal(f, c, run) ==
    IF run.spawned /\ run.success
    THEN Bind(parse_ldd_output(run.stdout), LAMBDA p :
           Bind(CopyLibs(f, c, p.libs, p.warn), LAMBDA r :
             [ok |-> TRUE, val |-> TRUE, err |-> "", fs |-> r.fs,
              log |-> r.log]))
    ELSE [ok |-> FALSE, val |-> FALSE, err |-> "ldd failed", fs |-> f,
          log |-> <<>>]

\* the libraries of a binary are copied only after a successful ldd run
QueryAndCopyLibs(f, c, run) ==
    IF run.spawned /\ run.success
    THEN Bind(parse_ldd_output(run.stdout), LAMBDA p :
           Bind(CopyLibs(f, c, p.libs, p.warn), LAMBDA r :
             [ok |-> TRUE, val |-> TRUE, err |-> "", fs |-> r.fs,
              log |-> r.log]))
    ELSE [ok |-> TRUE, val |-> TRUE, err |-> "", fs |-> f, log |-> <<>>]

\* mutant: a binary that is not found is an error
CopyFoundOrFail(f, c, found, dest, binary, run) ==
    IF ~found.some
    THEN [ok |-> FALSE, val |-> FALSE, err |-> "binary not found", fs |-> f,
          log |-> <<Warn("not found, skipping", <<binary>>, "")>>]
    ELSE Bind(InstallIfAbsent(f, found.val, dest), LAMBDA b :
           IF ~b.ok
           THEN [ok |-> FALSE, val |-> FALSE, err |-> b.err, fs |-> b.fs,
                 log |-> <<>>]
           ELSE QueryAndCopyLibs(b.fs, c, run))

\* the part of both orchestrators after the search
CopyFound(f, c, found, dest, binary, run) ==
    IF ~found.some
    THEN [ok |-> TRUE, val |-> FALSE, err |-> "", fs |-> f,
          log |-> <<Warn("not found, skipping", <<binary>>, "")>>]
    ELSE Bind(InstallIfAbsent(f, found.val, dest), LAMBDA b :
           IF ~b.ok
           THEN [ok |-> FALSE, val |-> FALSE, err |-> b.err, fs |-> b.fs,
                 log |-> <<>>]
           ELSE QueryAndCopyLibs(b.fs, c, run))

\* mutant: the binary is put at the top of the staging tree
copy_binary_ignoring_dest_dir(f, c, binary, dest_dir, run) ==
    Bind(find_binary(f, c.source, binary), LAMBDA found :
      CopyFound(f, c, found, Join(c.staging, <<binary>>), binary, run))

copy_binary_with_libs(f, c, binary, dest_dir, run) ==
    Bind(find_binary(f, c.source, binary), LAMBDA found :
      CopyFound(f, c, found, Join(Join(c.staging, dest_dir), <<binary>>),
                binary, run))

copy_sbin_binary_with_libs(f, c, binary, run) ==
    Bind(find_sbin_binary(f, c.source, binary), LAMBDA found :
      CopyFound(f, c, found,
                Join(Join(c.staging, RelStr(<<"usr", "sbin">>)), <<binary>>),
                binary, run))

BashCandidates(rootfs) ==
    << Join(rootfs, RelStr(<<"usr", "bin", "bash">>)),
       Join(rootfs, RelStr(<<"bin", "bash">>)) >>

\* copy_bash: the copy is unconditional, a failure to start ldd is an
\* error, and the exit status of ldd is not looked at
copy_bash(f, c, run) ==
    Bind(FirstExisting(f, BashCandidates(c.source)), LAMBDA bash_path :
      IF ~bash_path.some
      THEN [ok |-> FALSE, val |-> FALSE,
            err |-> "Could not find bash in source rootfs", fs |-> f,
            log |-> <<>>]
      ELSE Bind(InstallBinary(f, bash_path.val,
                              Join(c.staging, RelStr(<<"usr", "bin", "bash">>))),
                LAMBDA b :
             IF ~b.ok
             THEN [ok |-> FALSE, val |-> FALSE, err |-> b.err, fs |-> b.fs,
                   log |-> <<>>]
             ELSE IF ~run.spawned
             THEN [ok |-> FALSE, val |-> FALSE, err |-> "Failed to run ldd",
                   fs |-> b.fs, log |-> <<>>]
             ELSE Bind(parse_ldd_output(run.stdout), LAMBDA p :
                    Bind(CopyLibs(b.fs, c, p.libs, p.warn), LAMBDA r :
                      [ok |-> TRUE, val |-> TRUE, err |-> "", fs |-> r.fs,
                       log |-> r.log]))))

\* copy_shell: copy_bash(ctx)?
copy_shell(f, c, run) == copy_bash(f, c, run)

(***************************************************************************)
(* The catalog loops of rootfs/binaries.rs.  The catalogs of the source    *)
(* are long lists of names; the model keeps the first names of each.       *)
(***************************************************************************)
COREUTILS == <<"ls", "cat">>

SBIN_UTILS == <<"mount", "umount">>

\* one call of the loop body: copy_sbin_binary_with_libs for the sbin
\* catalog, copy_binary_with_libs(ctx, binary, "usr/bin") otherwise
CopyOne(f, c, b, sbin, run) ==
    IF sbin THEN copy_sbin_binary_with_libs(f, c, b, run)
    ELSE copy_binary_with_libs(f, c, b, RelStr(<<"usr", "bin">>), run)

RECURSIVE CopyCatalog(_, _, _, _, _, _)
\* for binary in CATALOG { if copy(ctx, binary)? { copied += 1; } }
\* runs gives the ldd run of a name
CopyCatalog(f, c, names, sbin, runs, acc) ==
    IF names = <<>>
    THEN [ok |-> TRUE, val |-> TRUE, err |-> "", fs |-> f, log |-> acc.log,
          copied |-> acc.copied]
    ELSE Bind(CopyOne(f, c, Head(names), sbin, runs[Head(names)]), LAMBDA r :
           IF ~r.ok
           THEN [ok |-> FALSE, val |-> FALSE, err |-> r.err, fs |-> r.fs,
                 log |-> acc.log \o r.log, copied |-> acc.copied]
           ELSE Bind([log |-> acc.log \o r.log,
                      copied |-> acc.copied + (IF r.val THEN 1 ELSE 0)],
                     LAMBDA a : CopyCatalog(r.fs, c, Tail(names), sbin, runs, a)))

copy_coreutils(f, c, runs) ==
    CopyCatalog(f, c, COREUTILS, FALSE, runs, [log |-> <<>>, copied |-> 0])

copy_sbin_utils(f, c, runs) ==
    CopyCatalog(f, c, SBIN_UTILS, TRUE, runs, [log |-> <<>>, copied |-> 0])

(***************************************************************************)
(* The worlds a build runs in.                                             *)
(***************************************************************************)
\* BuildContext::new(source, staging, output), staging = output/staging
SourceRoot == AbsStr(<<"rootfs">>)

OutputDir == AbsStr(<<"out">>)

NewContext ==
    [source |-> SourceRoot, staging |-> Join(OutputDir, <<"staging">>),
     output |-> OutputDir, recipe_binary |-> NoPath]

R == <<"rootfs">>

S == <<"out", "staging">>

\* a regular file whose content names the place it comes from
Orig(loc) == <<loc, File(loc, SrcMode)>>

\* the filesystem holding the entries es (pairs of location and node) and
\* the directories above them
FsOf(es) ==
    LET locs == {e[1] : e \in es}
        ups == UNION {{SubSeq(l, 1, k) : k \in 1..(Len(l) - 1)} : l \in locs}
        dirs == ups \ locs
    IN  [x \in locs \cup dirs |->
            IF x \in locs THEN (CHOOSE e \in es : e[1] = x)[2] ELSE Dir]

\* always there: the working directory, the output and staging directories,
\* the host's library directory and its /lib64 link, the library
\* directories of the source, and files named like a link target in the
\* working directory and at the top of the source
BaseEntries ==
    { <<Cwd, Dir>>, <<S, Dir>>, <<<<"usr", "lib64">>, Dir>>,
      <<<<"lib64">>, Symlink(RelStr(<<"usr", "lib64">>))>>,
      <<R \o <<"usr", "lib64">>, Dir>>, <<R \o <<"usr", "lib">>, Dir>>,
      <<R \o <<"usr", "bin">>, Dir>>,
      Orig(Cwd \o <<"libc-2.34.so">>), Orig(R \o <<"libc-2.34.so">>),
      Orig(R \o <<"usr", "lib", "lib64z.so.1">>) }

\* the staging tree: empty, with the directories create_fhs_structure
\* makes, or left by an earlier run
FhsEntries ==
    { <<S \o <<"usr", "bin">>, Dir>>, <<S \o <<"usr", "sbin">>, Dir>>,
      <<S \o <<"usr", "lib">>, Dir>>, <<S \o <<"usr", "lib64">>, Dir>> }

UsedEntries ==
    FhsEntries \cup
    { <<S \o <<"usr", "lib64", "libc.so.6">>, File(<<"old libc">>, Mode755)>>,
      <<S \o <<"usr", "bin", "ls">>, File(<<"old ls">>, SrcMode)>>,
      <<S \o <<"usr", "bin", "bash">>, File(<<"old bash">>, SrcMode)>> }

StagingChoices == { {}, FhsEntries, UsedEntries }

\* <root>/usr/lib64/libc.so.6: absent, a file, a link with a relative
\* target, a link with an absolute target
LibcChoices(root) ==
    LET at == root \o <<"usr", "lib64", "libc.so.6">>
    IN  { {}, {Orig(at)}, {<<at, Symlink(<<"libc-2.34.so">>)>>},
          {<<at, Symlink(AbsStr(<<"usr", "lib64", "libc-2.34.so">>))>>} }

\* <root>/usr/lib64/libc-2.34.so: absent or a file
TargetChoices(root) == { {}, {Orig(root \o <<"usr", "lib64", "libc-2.34.so">>)} }

\* <rootfs>/lib64: absent, a directory of its own, or the merged-usr link
Lib64Choices ==
    { {}, {Orig(R \o <<"lib64", "libc.so.6">>)},
      {<<R \o <<"lib64">>, Symlink(RelStr(<<"usr", "lib64">>))>>} }

FooChoices == { {}, {Orig(R \o <<"usr", "lib", "libfoo.so">>)} }

\* the library paths asked for
LibC == AbsStr(<<"usr", "lib64", "libc.so.6">>)

LibCOld == AbsStr(<<"lib64", "libc.so.6">>)

LibZ == AbsStr(<<"usr", "lib", "lib64z.so.1">>)

LibFoo == AbsStr(<<"usr", "lib", "libfoo.so">>)

LibGone == AbsStr(<<"usr", "lib64", "libgone.so">>)

LibPaths == {LibC, LibCOld, LibZ, LibFoo}

NoCall ==
    [op |-> "none", binary |-> "", lib |-> <<>>, ok |-> TRUE, val |-> TRUE,
     err |-> "", log |-> <<>>]

NoRun == [spawned |-> FALSE, success |-> FALSE, stdout |-> <<>>]

\* parse_ldd_output has not been called
NoParse == [called |-> FALSE, ok |-> TRUE, libs |-> <<>>, warn |-> <<>>]

\* no catalog loop is being stepped through
NoPc ==
    [at |-> "idle", names |-> <<>>, sbin |-> FALSE, found |-> NoPath, k |-> 0,
     log |-> <<>>, trace |-> <<>>]

\* the filesystems of the library specification
LibWorlds ==
    { FsOf(BaseEntries \cup st \cup a \cup b \cup c \cup d \cup e \cup g) :
        st \in StagingChoices, a \in LibcChoices(R), b \in TargetChoices(R),
        c \in Lib64Choices, d \in {x \in LibcChoices(<<>>) : Cardinality(x) = 0
                                      \/ \E y \in x : y[2].kind = "file"},
        e \in TargetChoices(<<>>), g \in FooChoices }

InitLib ==
    /\ fs \in LibWorlds
    /\ ldd = [b \in {"ls"} |-> NoRun]
    /\ ctx = NewContext
    /\ last = NoCall
    /\ pre = fs
    /\ steps = 0
    /\ fs0 = fs
    /\ calls = {}
    /\ text = <<>>
    /\ parsed = NoParse
    /\ pc = NoPc

\* a direct call of copy_library(&ctx.source, lib, &ctx.staging)
CopyLibraryCall(lib) ==
    /\ steps < MaxSteps
    /\ \E r \in {copy_library(fs, ctx.source, lib, ctx.staging)} :
           /\ fs' = r.fs
           /\ last' = [op |-> "copy_library", binary |-> "", lib |-> lib,
                       ok |-> r.ok, val |-> r.ok, err |-> r.err, log |-> <<>>]
    /\ pre' = fs
    /\ steps' = steps + 1
    /\ calls' = calls \cup {[op |-> "copy_library", binary |-> ""]}
    /\ UNCHANGED <<ctx, ldd, fs0, text, parsed, pc>>

NextLib == \E lib \in LibPaths : CopyLibraryCall(lib)

SpecLib == InitLib /\ [][NextLib]_vars

(***************************************************************************)
(* The orchestrator specification: calls of the per-binary entry points    *)
(* and of the catalog loops.                                               *)
(***************************************************************************)
Binaries == {"ls", "cat", "mount", "umount", "bash"}

\* the mode of the binaries of a directory of the source: octal 0700 in
\* /bin, 0555 in /sbin, 0644 elsewhere
SrcModeIn(d) ==
    IF d = <<"bin">> THEN 7 * 64
    ELSE IF d = <<"sbin">> THEN 5 * 64 + 5 * 8 + 5
    ELSE SrcMode

\* the directories of the source that hold the binary `name`
BinEntries(name, dirs) ==
    { <<R \o d \o <<name>>, File(R \o d \o <<name>>, SrcModeIn(d))>> : d \in dirs }

UsrBin == <<"usr", "bin">>

UsrSbin == <<"usr", "sbin">>

LsChoices ==
    { BinEntries("ls", ds) :
        ds \in { {}, {UsrBin, <<"sbin">>}, {<<"bin">>, UsrSbin} } }

CatChoices == { BinEntries("cat", ds) : ds \in { {}, {<<"bin">>} } }

\* of the sbin catalog the source has umount (in /sbin) and no mount
SbinEntries == BinEntries("umount", {<<"sbin">>})

BashChoices ==
    { BinEntries("bash", ds) : ds \in { {}, {<<"bin">>}, {UsrBin, <<"bin">>} } }

\* reports of ldd
LddLine(soname, path) == <<"\t", soname, " ", "=>", " ">> \o path \o <<" ", "(0x7f)", "\n">>

ReportFull ==
    <<"\t", "linux-vdso.so.1", " ", "(0x7ffc)", "\n">>
    \o LddLine("libgone.so", LibGone)
    \o LddLine("libc.so.6", LibC)
    \o <<"\t", "libnf.so", " ", "=>", " ", "not", " ", "found", "\n">>
    \o LddLine("libfoo.so", LibFoo)
    \o <<"\t">> \o AbsStr(<<"lib64", "ld-linux.so.2">>) \o <<" ", "(0x7f)", "\n">>

ReportShort == LddLine("libc.so.6", LibC) \o LddLine("lib64z.so.1", LibZ)

\* the report of a binary linked against libc only
ReportOne == LddLine("libc.so.6", LibC)

ReportStatic == <<"\t", "not", " ", "a", " ", "dynamic", " ", "executable", "\n">>

\* ldd cannot be started; it exits nonzero (with or without a report on
\* stdout); it exits with status 0
LddRuns ==
    { NoRun,
      [spawned |-> TRUE, success |-> FALSE, stdout |-> ReportFull],
      [spawned |-> TRUE, success |-> FALSE, stdout |-> ReportStatic],
      [spawned |-> TRUE, success |-> TRUE, stdout |-> ReportFull],
      [spawned |-> TRUE, success |-> TRUE, stdout |-> ReportShort],
      [spawned |-> TRUE, success |-> TRUE, stdout |-> ReportOne] }

\* the link libc.so.6 -> libc-2.34.so with its target, or one plain file
SourceLibcChoices ==
    { {Orig(R \o <<"usr", "lib64", "libc.so.6">>)},
      { <<R \o <<"usr", "lib64", "libc.so.6">>, Symlink(<<"libc-2.34.so">>)>>,
        Orig(R \o <<"usr", "lib64", "libc-2.34.so">>) } }

Worlds ==
    { FsOf(BaseEntries \cup SbinEntries \cup st \cup a \cup g \cup ls
           \cup ct \cup bs) :
        st \in StagingChoices, a \in SourceLibcChoices,
        g \in {x \in FooChoices : x # {}},
        ls \in LsChoices, ct \in CatChoices, bs \in BashChoices }

Init ==
    /\ fs \in Worlds
    /\ \E r \in LddRuns : ldd = [b \in Binaries |-> r]
    /\ ctx = NewContext
    /\ last = NoCall
    /\ pre = fs
    /\ steps = 0
    /\ fs0 = fs
    /\ calls = {}
    /\ text = <<>>
    /\ parsed = NoParse
    /\ pc = NoPc

\* the state after a call that returned r
Returned(op, binary, r) ==
    /\ fs' = r.fs
    /\ last' = [op |-> op, binary |-> binary, lib |-> <<>>, ok |-> r.ok,
                val |-> r.val, err |-> r.err, log |-> r.log]
    /\ pre' = fs
    /\ steps' = steps + 1
    /\ calls' = calls \cup {[op |-> op, binary |-> binary]}
    /\ UNCHANGED <<ctx, ldd, fs0, text, parsed, pc>>

CopyBinaryWithLibsCall(binary) ==
    /\ steps < MaxSteps
    /\ \E r \in {copy_binary_with_libs(fs, ctx, binary, RelStr(UsrBin),
                                       ldd[binary])} :
           Returned("copy_binary_with_libs", binary, r)

CopySbinBinaryWithLibsCall(binary) ==
    /\ steps < MaxSteps
    /\ \E r \in {copy_sbin_binary_with_libs(fs, ctx, binary, ldd[binary])} :
           Returned("copy_sbin_binary_with_libs", binary, r)

CopyShellCall ==
    /\ steps < MaxSteps
    /\ \E r \in {copy_shell(fs, ctx, ldd["bash"])} :
           Returned("copy_bash", "bash", r)

CopyCoreutilsCall ==
    /\ steps < MaxSteps
    /\ \E r \in {copy_coreutils(fs, ctx, ldd)} :
           Returned("copy_coreutils", "", r)

CopySbinUtilsCall ==
    /\ steps < MaxSteps
    /\ \E r \in {copy_sbin_utils(fs, ctx, ldd)} :
           Returned("copy_sbin_utils", "", r)

Next ==
    \/ \E b \in {"ls"} : CopyBinaryWithLibsCall(b)
    \/ \E b \in {"ls"} : CopySbinBinaryWithLibsCall(b)
    \/ CopyShellCall
    \/ CopyCoreutilsCall
    \/ CopySbinUtilsCall

Spec == Init /\ [][Next]_vars

(***************************************************************************)
(* The catalog specification: copy_coreutils and copy_sbin_utils as        *)
(* build_rootfs calls them, on a staging tree that create_fhs_structure    *)
(* has laid out, with an ldd run of its own for every binary.              *)
(***************************************************************************)
MountChoices == { BinEntries("mount", ds) : ds \in { {}, {UsrSbin} } }

CatalogWorlds ==
    { FsOf(BaseEntries \cup SbinEntries \cup st \cup a \cup g \cup ls
           \cup ct \cup mt) :
        st \in {FhsEntries, UsedEntries}, a \in SourceLibcChoices,
        g \in {x \in FooChoices : x # {}},
        ls \in LsChoices, ct \in CatChoices, mt \in MountChoices }

InitCatalog ==
    /\ fs \in CatalogWorlds
    /\ \E r1, r2 \in LddRuns :
         ldd = [b \in Binaries |-> IF b \in {"ls", "mount"} THEN r1 ELSE r2]
    /\ ctx = NewContext
    /\ last = NoCall
    /\ pre = fs
    /\ steps = 0
    /\ fs0 = fs
    /\ calls = {}
    /\ text = <<>>
    /\ parsed = NoParse
    /\ pc = NoPc

NextCatalog == CopyCoreutilsCall \/ CopySbinUtilsCall

SpecCatalog == InitCatalog /\ [][NextCatalog]_vars

(***************************************************************************)
(* The parser specification: parse_ldd_output applied to texts of up to    *)
(* MaxLines lines, each line one of the shapes below and ended by a line   *)
(* break.                                                                  *)
(***************************************************************************)
\* "\tlibc.so.6 => /usr/lib64/libc.so.6 (0x7f)"
LineArrowPath == <<"\t", "libc.so.6", " ", "=>", " ">> \o LibC \o <<" ", "(0x7f)">>

\* "\tlinux-vdso.so.1 =>  (0x7ffc)": the token after the arrow is an address
LineArrowAddress == <<"\t", "linux-vdso.so.1", " ", "=>", " ", " ", "(0x7ffc)">>

\* "\tlibnf.so => not found"
LineNotFound == <<"\t", "libnf.so", " ", "=>", " ", "not", " ", "found">>

\* "\t/lib64/ld-linux.so.2 (0x7f)": the dynamic linker's own entry
LineSelfEntry ==
    <<"\t">> \o AbsStr(<<"lib64", "ld-linux.so.2">>) \o <<" ", "(0x7f)">>

\* "\tlinux-vdso.so.1 (0x7ffc)": none of the patterns
LineOther == <<"\t", "linux-vdso.so.1", " ", "(0x7ffc)">>

\* "\tlibq.so => /usr/lib/libfoo.so not found"
LineArrowPathNotFound ==
    <<"\t", "libq.so", " ", "=>", " ">> \o LibFoo \o <<" ", "not", " ", "found">>

\* "/opt/libx.so not found"
LineSlashNotFound == AbsStr(<<"opt", "libx.so">>) \o <<" ", "not", " ", "found">>

\* "liba => /usr/lib64/libc.so.6=>/usr/lib/libfoo.so"
LineTwoArrows == <<"liba", " ", "=>", " ">> \o LibC \o <<"=>">> \o LibFoo

\* "/usr/lib/lib64z.so.1 => /usr/lib/libfoo.so"
LineSlashArrow == LibZ \o <<" ", "=>", " ">> \o LibFoo

\* "libe =>"
LineArrowOnly == <<"libe", " ", "=>">>

\* " ": a blank line
LineBlank == <<" ">>

ParserLines ==
    { LineArrowPath, LineArrowAddress, LineNotFound, LineSelfEntry, LineOther,
      LineArrowPathNotFound, LineSlashNotFound, LineTwoArrows, LineSlashArrow,
      LineArrowOnly, LineBlank }

RECURSIVE Flatten(_)
\* the concatenation of a sequence of sequences
Flatten(ss) == IF ss = <<>> THEN <<>> ELSE Head(ss) \o Flatten(Tail(ss))

ParserTexts ==
    { Flatten([k \in 1..Len(ls) |-> Append(ls[k], "\n")]) :
        ls \in UNION {[1..n -> ParserLines] : n \in 0..MaxLines} }

InitParse ==
    /\ fs = FsOf(BaseEntries)
    /\ ldd = [b \in Binaries |-> NoRun]
    /\ ctx = NewContext
    /\ last = NoCall
    /\ pre = fs
    /\ steps = 0
    /\ fs0 = fs
    /\ calls = {}
    /\ text \in ParserTexts
    /\ parsed = NoParse
    /\ pc = NoPc

\* parse_ldd_output(&text)
ParseLddOutputCall ==
    /\ steps < MaxSteps
    /\ \E r \in {parse_ldd_output(text)} :
           parsed' = [called |-> TRUE, ok |-> r.ok, libs |-> r.libs,
                      warn |-> r.warn]
    /\ steps' = steps + 1
    /\ calls' = calls \cup {[op |-> "parse_ldd_output", binary |-> ""]}
    /\ UNCHANGED <<fs, ldd, ctx, last, pre, fs0, text, pc>>

NextParse == ParseLddOutputCall

SpecParse == InitParse /\ [][NextParse]_vars

(***************************************************************************)
(* The search specification: find_binary and find_sbin_binary on source    *)
(* trees that hold a binary in any of the four directories.                *)
(***************************************************************************)
\* ls: in any set of the four directories, or a dangling link in usr/bin
\* beside any set of the other three
FindLsChoices ==
    { BinEntries("ls", ds) : ds \in SUBSET {UsrBin, <<"bin">>, UsrSbin, <<"sbin">>} }
    \cup
    { BinEntries("ls", ds) \cup {<<R \o UsrBin \o <<"ls">>, Symlink(<<"gone">>)>>} :
        ds \in SUBSET {<<"bin">>, UsrSbin, <<"sbin">>} }

FindWorlds ==
    { FsOf(BaseEntries \cup ls \cup ct) : ls \in FindLsChoices, ct \in CatChoices }

InitFind ==
    /\ fs \in FindWorlds
    /\ ldd = [b \in Binaries |-> NoRun]
    /\ ctx = NewContext
    /\ last = NoCall
    /\ pre = fs
    /\ steps = 0
    /\ fs0 = fs
    /\ calls = {}
    /\ text = <<>>
    /\ parsed = NoParse
    /\ pc = NoPc

\* the state after a search returned found (an Option<PathBuf>)
Searched(op, binary, found) ==
    /\ last' = [op |-> op, binary |-> binary, lib |-> found.val, ok |-> TRUE,
                val |-> found.some, err |-> "", log |-> <<>>]
    /\ pre' = fs
    /\ steps' = steps + 1
    /\ calls' = calls \cup {[op |-> op, binary |-> binary]}
    /\ UNCHANGED <<fs, ctx, ldd, fs0, text, parsed, pc>>

FindBinaryCall(binary) ==
    /\ steps < MaxSteps
    /\ \E r \in {find_binary(fs, ctx.source, binary)} :
           Searched("find_binary", binary, r)

FindSbinBinaryCall(binary) ==
    /\ steps < MaxSteps
    /\ \E r \in {find_sbin_binary(fs, ctx.source, binary)} :
           Searched("find_sbin_binary", binary, r)

NextFind ==
    \/ \E b \in {"ls", "cat"} : FindBinaryCall(b)
    \/ \E b \in {"ls", "cat"} : FindSbinBinaryCall(b)

SpecFind == InitFind /\ [][NextFind]_vars

(***************************************************************************)
(* Stage3Builder::build and the steps of build_rootfs.                     *)
(***************************************************************************)
\* fs::remove_dir_all: the directory and everything below it goes; a link
\* is removed itself; a missing path or a regular file is an error
RemoveDirAll(f, p) ==
    LET r == Lookup(f, p, FALSE)
    IN  IF r.st # "found" \/ NodeAt(f, r.loc).kind = "file"
        THEN ErrRes(f, "remove_dir_all failed")
        ELSE OkRes([x \in {l \in DOMAIN f :
                           ~(/\ Len(r.loc) <= Len(l)
                             /\ SubSeq(l, 1, Len(r.loc)) = r.loc)} |-> f[x]])

\* std::os::unix::fs::symlink(target, link): the link must not exist and
\* its directory must
MakeSymlink(f, target, link) ==
    LET r == Lookup(f, link, FALSE)
    IN  IF r.st = "absent" /\ r.loc # <<>>
        THEN OkRes(Put(f, r.loc, Symlink(target)))
        ELSE ErrRes(f, "symlink failed")

\* fs::write(path, content): creates or truncates a regular file
WriteFile(f, path, content) ==
    LET b == Lookup(f, path, TRUE)
    IN  IF b.st = "error" \/ b.loc = <<>>
           \/ (b.st = "found" /\ NodeAt(f, b.loc).kind # "file")
        THEN ErrRes(f, "write failed")
        ELSE OkRes(Put(f, b.loc,
                       File(content,
                            IF b.st = "found" THEN NodeAt(f, b.loc).mode
                            ELSE 6 * 64 + 4 * 8 + 4)))

\* the directories create_fhs_structure makes, in its order; of the long
\* list the model keeps the ones the later steps write into
FhsDirs ==
    << <<"bin">>, <<"sbin">>, <<"lib">>, <<"lib64">>, <<"usr", "bin">>,
       <<"usr", "sbin">>, <<"usr", "lib">>, <<"usr", "lib64">>, <<"etc">>,
       <<"run">>, <<"run", "lock">>, <<"var">> >>

RECURSIVE CreateDirs(_, _, _)
\* for dir in dirs { fs::create_dir_all(staging.join(dir))?; }
\* (the first half of the list, then the second half on what it left)
CreateDirs(f, staging, dirs) ==
    IF dirs = <<>> THEN OkRes(f)
    ELSE IF Len(dirs) = 1
    THEN CreateDirAll(f, Join(staging, RelStr(dirs[1])))
    ELSE Bind(CreateDirs(f, staging, SubSeq(dirs, 1, Len(dirs) \div 2)),
              LAMBDA r :
           IF ~r.ok THEN r
           ELSE CreateDirs(r.fs, staging,
                           SubSeq(dirs, Len(dirs) \div 2 + 1, Len(dirs))))

create_fhs_structure(f, staging) == CreateDirs(f, staging, FhsDirs)

\* if !link.exists() && !link.is_symlink() { symlink(target, link)?; }
LinkIfFree(f, target, link) ==
    IF ~Exists(f, link) /\ ~IsSymlink(f, link)
    THEN MakeSymlink(f, target, link)
    ELSE OkRes(f)

\* if link.exists() && !link.is_symlink() { remove_dir_all(link)?; }
\* if !link.exists() { symlink(target, link)?; }
LinkOverDir(f, target, link) ==
    Bind(IF Exists(f, link) /\ ~IsSymlink(f, link)
         THEN RemoveDirAll(f, link) ELSE OkRes(f), LAMBDA r :
      IF ~r.ok THEN r
      ELSE IF ~Exists(r.fs, link) THEN MakeSymlink(r.fs, target, link)
      ELSE r)

\* the links of create_symlinks, in its order
StagingLinks ==
    << [over |-> FALSE, link |-> <<"var", "run">>, target |-> AbsStr(<<"run">>)],
       [over |-> FALSE, link |-> <<"var", "lock">>,
        target |-> AbsStr(<<"run", "lock">>)],
       [over |-> TRUE, link |-> <<"bin">>, target |-> RelStr(<<"usr", "bin">>)],
       [over |-> TRUE, link |-> <<"sbin">>, target |-> RelStr(<<"usr", "sbin">>)],
       [over |-> TRUE, link |-> <<"lib">>, target |-> RelStr(<<"usr", "lib">>)],
       [over |-> TRUE, link |-> <<"lib64">>,
        target |-> RelStr(<<"usr", "lib64">>)],
       [over |-> FALSE, link |-> <<"usr", "bin", "sh">>, target |-> <<"bash">>] >>

RECURSIVE CreateLinks(_, _, _)
\* the links one after the other, each with `?`
CreateLinks(f, staging, links) ==
    IF links = <<>> THEN OkRes(f)
    ELSE IF Len(links) = 1
    THEN IF links[1].over
         THEN LinkOverDir(f, links[1].target,
                          Join(staging, RelStr(links[1].link)))
         ELSE LinkIfFree(f, links[1].target,
                         Join(staging, RelStr(links[1].link)))
    ELSE Bind(CreateLinks(f, staging, SubSeq(links, 1, Len(links) \div 2)),
              LAMBDA r :
           IF ~r.ok THEN r
           ELSE CreateLinks(r.fs, staging,
                            SubSeq(links, Len(links) \div 2 + 1, Len(links))))

create_symlinks(f, staging) == CreateLinks(f, staging, StagingLinks)

\* copy_systemd_binaries: the main binary when the source has it, then
\* the link usr/sbin/init; the worlds of the model have none of the helper
\* binaries and no private library directory
copy_systemd_binaries(f, c) ==
    LET systemd_src == Join(c.source, RelStr(<<"usr", "lib", "systemd", "systemd">>))
        systemd_dst == Join(c.staging, RelStr(<<"usr", "lib", "systemd", "systemd">>))
        init_link == Join(c.staging, RelStr(<<"usr", "sbin", "init">>))
    IN  Bind(IF Exists(f, systemd_src)
             THEN Bind(CreateDirAll(f, Parent(systemd_dst).val), LAMBDA d :
                    IF ~d.ok THEN ErrRes(d.fs, d.err)
                    ELSE Bind(FsCopy(d.fs, systemd_src, systemd_dst), LAMBDA cp :
                           IF ~cp.ok THEN ErrRes(cp.fs, cp.err)
                           ELSE make_executable(cp.fs, systemd_dst)))
             ELSE OkRes(f), LAMBDA r :
          IF ~r.ok THEN ErrRes(r.fs, r.err)
          ELSE LinkIfFree(r.fs, AbsStr(<<"usr", "lib", "systemd", "systemd">>),
                          init_link))

\* the names of copy_login_binaries; the model keeps the first two
LOGIN_BINARIES == <<"agetty", "login">>

copy_login_binaries(f, c, runs) ==
    CopyCatalog(f, c, LOGIN_BINARIES, TRUE, runs, [log |-> <<>>, copied |-> 0])

\* the configuration files the steps after the binaries write; the model
\* keeps the three the tarball check asks for
ConfigFiles == << <<"etc", "passwd">>, <<"etc", "shadow">>, <<"etc", "os-release">> >>

RECURSIVE WriteFiles(_, _, _)
WriteFiles(f, staging, files) ==
    IF files = <<>> THEN OkRes(f)
    ELSE Bind(WriteFile(f, Join(staging, RelStr(Head(files))),
                        <<"config", Head(files)[Len(Head(files))]>>), LAMBDA r :
           IF ~r.ok THEN r ELSE WriteFiles(r.fs, staging, Tail(files)))

create_etc_files(f, c) == WriteFiles(f, c.staging, ConfigFiles)

\* a Result<()> of a step that logs nothing
Quiet(r) == [ok |-> r.ok, err |-> r.err, fs |-> r.fs, log |-> <<>>]

\* the i-th step of build_rootfs on the filesystem f
RootfsStep(i, f, c, runs) ==
    CASE i = 1 -> Quiet(create_fhs_structure(f, c.staging))
      [] i = 2 -> Quiet(create_symlinks(f, c.staging))
      [] i = 3 -> copy_shell(f, c, runs["bash"])
      [] i = 4 -> copy_coreutils(f, c, runs)
      [] i = 5 -> copy_sbin_utils(f, c, runs)
      [] i = 6 -> Quiet(copy_systemd_binaries(f, c))
      [] i = 7 -> copy_login_binaries(f, c, runs)
      [] i = 8 -> Quiet(create_etc_files(f, c))

\* build_rootfs up to its i-th step: p is what the steps before left
\* (every step is called with `?`, the warnings add up)
AfterStep(p, i, c, runs) ==
    IF ~p.ok THEN p
    ELSE Bind(RootfsStep(i, p.fs, c, runs), LAMBDA r :
           [ok |-> r.ok, err |-> r.err, fs |-> r.fs, log |-> p.log \o r.log])

TarballName == <<"levitateos-stage3.tar.xz">>

\* create_tarball: tar -cJf <output>/levitateos-stage3.tar.xz -C staging .
\* run is what starting tar gives
create_tarball_ignoring_status(f, output_dir, staging_dir, run) ==
    IF ~run.spawned THEN ErrRes(f, "Failed to run tar command")
    ELSE WriteFile(f, Join(output_dir, TarballName), <<"tarball">>)

create_tarball(f, output_dir, staging_dir, run) ==
    IF ~run.spawned THEN ErrRes(f, "Failed to run tar command")
    ELSE IF ~run.success THEN ErrRes(f, "tar command failed with status")
    ELSE Bind(WriteFile(f, Join(output_dir, TarballName), <<"tarball">>),
              LAMBDA w :
           IF ~w.ok THEN ErrRes(w.fs, "tar command failed with status") ELSE w)

\* the value build returns: the path of the tarball or an error, the
\* filesystem it leaves and the warnings it printed
BuildErr(f, e, log) == [ok |-> FALSE, val |-> NoPath, err |-> e, fs |-> f, log |-> log]

\* mutant: staging is not removed after the archive is written
ArchiveKeepingStaging(f, output_dir, staging_dir, run, log) ==
    Bind(create_tarball(f, output_dir, staging_dir, run), LAMBDA t :
      IF ~t.ok THEN BuildErr(t.fs, t.err, log)
      ELSE [ok |-> TRUE, val |-> SomePath(Join(output_dir, TarballName)),
            err |-> "", fs |-> t.fs, log |-> log])

\* the end of build: the archive, the removal of staging, the path
Archive(f, output_dir, staging_dir, run, log) ==
    Bind(create_tarball(f, output_dir, staging_dir, run), LAMBDA t :
      IF ~t.ok THEN BuildErr(t.fs, t.err, log)
      ELSE Bind(RemoveDirAll(t.fs, staging_dir), LAMBDA rm :
             IF ~rm.ok THEN BuildErr(rm.fs, rm.err, log)
             ELSE [ok |-> TRUE, val |-> SomePath(Join(output_dir, TarballName)),
                   err |-> "", fs |-> rm.fs, log |-> log]))

\* the beginning of build: the output directory, then a fresh staging
\* directory in it
PrepareStaging(f, output_dir, staging_dir) ==
    Bind(CreateDirAll(f, output_dir), LAMBDA o :
      IF ~o.ok THEN o
      ELSE Bind(IF Exists(o.fs, staging_dir)
                THEN RemoveDirAll(o.fs, staging_dir) ELSE o, LAMBDA rm :
             IF ~rm.ok THEN rm ELSE CreateDirAll(rm.fs, staging_dir)))

\* Stage3Builder::build up to the call of build_rootfs
BuildStart(f, source_dir, output_dir) ==
    IF ~Exists(f, source_dir)
    THEN [ok |-> FALSE, err |-> "Source directory does not exist", fs |-> f,
          log |-> <<>>]
    ELSE Bind(PrepareStaging(f, output_dir, Join(output_dir, <<"staging">>)),
              LAMBDA st :
           [ok |-> st.ok, err |-> st.err, fs |-> st.fs, log |-> <<>>])

\* Stage3Builder::build after build_rootfs: p is what build_rootfs gave
BuildEnd(p, output_dir, run) ==
    IF ~p.ok THEN BuildErr(p.fs, p.err, p.log)
    ELSE Archive(p.fs, output_dir, Join(output_dir, <<"staging">>), run, p.log)

(***************************************************************************)
(* The build specification: calls of Stage3Builder::build.                 *)
(***************************************************************************)
\* the names ldd is run on during a build, and tar
BuildPrograms == Binaries \cup {"agetty", "login", "tar"}

\* the host without a source root and without an output directory
HostEntries ==
    { <<Cwd, Dir>>, <<<<"usr", "lib64">>, Dir>>,
      <<<<"lib64">>, Symlink(RelStr(<<"usr", "lib64">>))>> }

\* the source root: missing, or a root filesystem with its libraries, with
\* or without bash, ls and systemd
SourceChoices ==
    { {} } \cup
    { { <<R \o <<"usr", "lib64">>, Dir>>, <<R \o <<"usr", "lib">>, Dir>>,
        <<R \o <<"usr", "bin">>, Dir>>,
        Orig(R \o <<"usr", "lib64", "libc.so.6">>),
        Orig(R \o <<"usr", "lib", "libfoo.so">>) }
      \cup SbinEntries \cup bs \cup ls \cup sd :
        bs \in BashChoices, ls \in LsChoices,
        sd \in { {}, {Orig(R \o <<"usr", "lib", "systemd", "systemd">>)} } }

\* the output directory: missing, empty, holding the staging tree of an
\* earlier run, or a regular file in its place
OutputChoices ==
    { {}, {<<<<"out">>, Dir>>}, {<<<<"out">>, Dir>>, <<S, Dir>>} \cup UsedEntries,
      {Orig(<<"out">>)} }

\* tar cannot be started, exits nonzero, or exits with status 0
TarRuns ==
    { NoRun, [spawned |-> TRUE, success |-> FALSE, stdout |-> <<>>],
      [spawned |-> TRUE, success |-> TRUE, stdout |-> <<>>] }

BuildWorlds ==
    { FsOf(HostEntries \cup src \cup out) :
        src \in SourceChoices, out \in OutputChoices }

InitBuild ==
    /\ fs \in BuildWorlds
    /\ \E r \in LddRuns, t \in TarRuns :
         ldd = [b \in BuildPrograms |-> IF b = "tar" THEN t ELSE r]
    /\ ctx = NewContext
    /\ last = NoCall
    /\ pre = fs
    /\ steps = 0
    /\ fs0 = fs
    /\ calls = {}
    /\ text = <<>>
    /\ parsed = NoParse
    /\ pc = NoPc

\* builder.build(): the start, the eight steps of build_rootfs one on
\* what the other left, the archive; the returned path is kept in last.lib
BuildCall ==
    /\ steps < MaxSteps
    /\ \E p0 \in {BuildStart(fs, SourceRoot, OutputDir)} :
       \E p1 \in {AfterStep(p0, 1, ctx, ldd)} :
       \E p2 \in {AfterStep(p1, 2, ctx, ldd)} :
       \E p3 \in {AfterStep(p2, 3, ctx, ldd)} :
       \E p4 \in {AfterStep(p3, 4, ctx, ldd)} :
       \E p5 \in {AfterStep(p4, 5, ctx, ldd)} :
       \E p6 \in {AfterStep(p5, 6, ctx, ldd)} :
       \E p7 \in {AfterStep(p6, 7, ctx, ldd)} :
       \E p8 \in {AfterStep(p7, 8, ctx, ldd)} :
       \E r \in {BuildEnd(p8, OutputDir, ldd["tar"])} :
           /\ fs' = r.fs
           /\ last' = [op |-> "build", binary |-> "",
                       lib |-> IF r.val.some THEN r.val.val ELSE <<>>,
                       ok |-> r.ok, val |-> r.ok, err |-> r.err, log |-> r.log]
    /\ pre' = fs
    /\ steps' = steps + 1
    /\ calls' = calls \cup {[op |-> "build", binary |-> ""]}
    /\ UNCHANGED <<ctx, ldd, fs0, text, parsed, pc>>

NextBuild == BuildCall

SpecBuild == InitBuild /\ [][NextBuild]_vars

(***************************************************************************)
(* verify_tarball and the specification of its calls.                      *)
(***************************************************************************)
\* str::contains: pat occurs in s as a contiguous piece
Contains(s, pat) ==
    \E i \in 0..(Len(s) - Len(pat)) : SubSeq(s, i + 1, i + Len(pat)) = pat

essential_files ==
    << RelStr(<<".", "usr", "bin", "bash">>),
       RelStr(<<".", "usr", "bin", "sh">>),
       RelStr(<<".", "usr", "sbin", "init">>),
       RelStr(<<".", "etc", "passwd">>),
       RelStr(<<".", "etc", "shadow">>),
       RelStr(<<".", "etc", "os-release">>),
       RelStr(<<".", "usr", "lib", "systemd", "systemd">>) >>

RECURSIVE MissingOf(_, _)
\* for file in essential_files { if !contents.contains(file) { missing.push(file); } }
MissingOf(contents, files) ==
    IF files = <<>> THEN <<>>
    ELSE (IF Contains(contents, Head(files)) THEN <<>> ELSE <<Head(files)>>)
         \o MissingOf(contents, Tail(files))

\* verify_tarball: run is what `tar -tJf path` gives
verify_tarball(run) ==
    IF ~run.spawned
    THEN [ok |-> FALSE, err |-> "Failed to run tar command", missing |-> <<>>]
    ELSE IF ~run.success
    THEN [ok |-> FALSE, err |-> "tar command failed", missing |-> <<>>]
    ELSE Bind(MissingOf(run.stdout, essential_files), LAMBDA missing :
           IF missing = <<>> THEN [ok |-> TRUE, err |-> "", missing |-> <<>>]
           ELSE [ok |-> FALSE,
                 err |-> "Tarball verification failed: missing essential files",
                 missing |-> missing])

\* entries whose names go on after the name of an essential entry:
\* ./usr/bin/bashbug, ./usr/bin/shred, ./etc/shadow-,
\* ./usr/lib/systemd/systemd-executor
LongerEntries ==
    { essential_files[1] \o <<"bug">>, essential_files[2] \o <<"red">>,
      essential_files[5] \o <<"-">>, essential_files[7] \o <<"-executor">> }

RECURSIVE ListingOf(_)
\* the output of tar -t for a set of entries: one entry per line
ListingOf(entries) ==
    IF entries = {} THEN <<>>
    ELSE LET e == CHOOSE x \in entries : TRUE
         IN  e \o <<"\n">> \o ListingOf(entries \ {e})

\* the listings tar gives: any of the essential entries, any of the longer
\* ones
Listings ==
    { ListingOf(a \cup b) :
        a \in SUBSET {essential_files[i] : i \in 1..Len(essential_files)},
        b \in SUBSET LongerEntries }

InitVerify ==
    /\ fs = FsOf(HostEntries)
    /\ \E l \in Listings, t \in TarRuns :
         ldd = [b \in {"tar"} |-> [t EXCEPT !.stdout = IF t.success THEN l ELSE <<>>]]
    /\ ctx = NewContext
    /\ last = NoCall
    /\ pre = fs
    /\ steps = 0
    /\ fs0 = fs
    /\ calls = {}
    /\ text = <<>>
    /\ parsed = NoParse
    /\ pc = NoPc

\* the verify command: verify_tarball(&tarball); the names reported
\* missing are kept in last.log
VerifyTarballCall ==
    /\ steps < MaxSteps
    /\ \E r \in {verify_tarball(ldd["tar"])} :
           last' = [op |-> "verify_tarball", binary |-> "", lib |-> <<>>,
                    ok |-> r.ok, val |-> r.ok, err |-> r.err,
                    log |-> r.missing]
    /\ pre' = fs
    /\ steps' = steps + 1
    /\ calls' = calls \cup {[op |-> "verify_tarball", binary |-> ""]}
    /\ UNCHANGED <<fs, ctx, ldd, fs0, text, parsed, pc>>

NextVerify == VerifyTarballCall

SpecVerify == InitVerify /\ [][NextVerify]_vars

(***************************************************************************)
(* The catalog loops taken one step at a time: copy_coreutils, then        *)
(* copy_sbin_utils, as build_rootfs calls them.  Each action is one        *)
(* statement group of copy_binary_with_libs / copy_sbin_binary_with_libs   *)
(* and appends the step it took to pc.trace.                               *)
(***************************************************************************)
Step(kind, binary, k, lib) == [kind |-> kind, binary |-> binary, k |-> k, lib |-> lib]

\* the binary the loop is at
Current == Head(pc.names)

\* where the binary of the loop goes
CurrentDest ==
    Join(Join(ctx.staging, RelStr(IF pc.sbin THEN UsrSbin ELSE UsrBin)),
         <<Current>>)

\* mutant: the libraries are taken from the end of the list
LibraryAtReversed(libs, k) == libs[Len(libs) + 1 - k]

\* for lib in &libs: the library of the k-th turn of the loop
LibraryAt(libs, k) == libs[k]

\* the loop goes on to its next binary
NextBinary(log, trace) ==
    [at |-> "search", names |-> Tail(pc.names), sbin |-> pc.sbin,
     found |-> NoPath, k |-> 0, log |-> log, trace |-> trace]

InitSteps ==
    /\ fs \in CatalogWorlds
    /\ \E r1 \in LddRuns, r2 \in {NoRun, [spawned |-> TRUE, success |-> TRUE,
                                          stdout |-> ReportShort]} :
         ldd = [b \in Binaries |-> IF b \in {"ls", "mount"} THEN r1 ELSE r2]
    /\ ctx = NewContext
    /\ last = NoCall
    /\ pre = fs
    /\ steps = 0
    /\ fs0 = fs
    /\ calls = {}
    /\ text = <<>>
    /\ parsed = NoParse
    /\ pc = NoPc

\* copy_coreutils is entered
BeginCoreutils ==
    /\ pc.at = "idle"
    /\ pc' = [pc EXCEPT !.at = "search", !.names = COREUTILS, !.sbin = FALSE,
                        !.log = <<>>]
    /\ pre' = fs
    /\ UNCHANGED <<fs, ldd, ctx, last, steps, fs0, calls, text, parsed>>

\* copy_sbin_utils is entered after copy_coreutils has returned
BeginSbinUtils ==
    /\ pc.at = "between"
    /\ pc' = [pc EXCEPT !.at = "search", !.names = SBIN_UTILS, !.sbin = TRUE,
                        !.log = <<>>]
    /\ pre' = fs
    /\ UNCHANGED <<fs, ldd, ctx, last, steps, fs0, calls, text, parsed>>

\* find_binary / find_sbin_binary; None: warning, Ok(false)
SearchStep ==
    /\ pc.at = "search" /\ pc.names # <<>>
    /\ \E found \in {IF pc.sbin THEN find_sbin_binary(fs, ctx.source, Current)
                     ELSE find_binary(fs, ctx.source, Current)} :
         pc' = IF found.some
               THEN [pc EXCEPT !.at = "copy", !.found = found,
                               !.trace = Append(@, Step("search", Current, 0, <<>>))]
               ELSE NextBinary(Append(pc.log,
                                      Warn("not found, skipping", <<Current>>, "")),
                               Append(pc.trace, Step("search", Current, 0, <<>>)))
    /\ UNCHANGED <<fs, ldd, ctx, last, pre, steps, fs0, calls, text, parsed>>

\* if !dest.exists() { create_dir_all; fs::copy; make_executable }
CopyStep ==
    /\ pc.at = "copy"
    /\ \E r \in {InstallIfAbsent(fs, pc.found.val, CurrentDest)} :
         /\ fs' = r.fs
         /\ pc' = [pc EXCEPT
                     !.at = IF r.ok THEN "query" ELSE "failed",
                     !.trace = IF Exists(fs, CurrentDest) THEN @
                               ELSE Append(@, Step("copy", Current, 0, <<>>))]
         /\ last' = IF r.ok THEN last
                    ELSE [op |-> IF pc.sbin THEN "copy_sbin_utils"
                                 ELSE "copy_coreutils",
                          binary |-> "", lib |-> <<>>, ok |-> FALSE,
                          val |-> FALSE, err |-> r.err, log |-> pc.log]
    /\ UNCHANGED <<ldd, ctx, pre, steps, fs0, calls, text, parsed>>

\* Command::new("ldd").arg(&bin_path).output(); a run that failed ends
\* the work on this binary
QueryStep ==
    /\ pc.at = "query"
    /\ IF ldd[Current].spawned /\ ldd[Current].success
       THEN /\ text' = ldd[Current].stdout
            /\ pc' = [pc EXCEPT !.at = "parse",
                                !.trace = Append(@, Step("query", Current, 0, <<>>))]
       ELSE /\ text' = text
            /\ pc' = NextBinary(pc.log,
                                Append(pc.trace, Step("query", Current, 0, <<>>)))
    /\ UNCHANGED <<fs, ldd, ctx, last, pre, steps, fs0, calls, parsed>>

\* let libs = parse_ldd_output(..)?
ParseStep ==
    /\ pc.at = "parse"
    /\ \E r \in {parse_ldd_output(text)} :
         /\ parsed' = [called |-> TRUE, ok |-> TRUE, libs |-> r.libs,
                       warn |-> r.warn]
         /\ pc' = IF r.libs = <<>>
                  THEN NextBinary(pc.log \o r.warn,
                                  Append(pc.trace, Step("parse", Current, 0, <<>>)))
                  ELSE [pc EXCEPT !.at = "library", !.k = 1, !.log = @ \o r.warn,
                                  !.trace = Append(@, Step("parse", Current, 0, <<>>))]
    /\ UNCHANGED <<fs, ldd, ctx, last, pre, steps, fs0, calls, text>>

\* one turn of the library loop: copy_library, a warning when it fails
LibraryStep ==
    /\ pc.at = "library"
    /\ \E lib \in {LibraryAt(parsed.libs, pc.k)} :
       \E r \in {copy_library(fs, ctx.source, lib, ctx.staging)} :
         /\ fs' = r.fs
         /\ \E log \in {IF r.ok THEN pc.log
                        ELSE Append(pc.log,
                                    Warn("Failed to copy library", lib, r.err))} :
            \E trace \in {Append(pc.trace, Step("library", Current, pc.k, lib))} :
              pc' = IF pc.k = Len(parsed.libs) THEN NextBinary(log, trace)
                    ELSE [pc EXCEPT !.k = @ + 1, !.log = log, !.trace = trace]
    /\ UNCHANGED <<ldd, ctx, last, pre, steps, fs0, calls, text, parsed>>

\* the loop is over: the catalog function returns Ok(())
CatalogReturn ==
    /\ pc.at = "search" /\ pc.names = <<>>
    /\ pc' = [pc EXCEPT !.at = IF pc.sbin THEN "done" ELSE "between"]
    /\ last' = [op |-> IF pc.sbin THEN "copy_sbin_utils" ELSE "copy_coreutils",
                binary |-> "", lib |-> <<>>, ok |-> TRUE, val |-> TRUE,
                err |-> "", log |-> pc.log]
    /\ steps' = steps + 1
    /\ calls' = calls \cup {[op |-> IF pc.sbin THEN "copy_sbin_utils"
                                    ELSE "copy_coreutils", binary |-> ""]}
    /\ UNCHANGED <<fs, ldd, ctx, pre, fs0, text, parsed>>

NextSteps ==
    \/ BeginCoreutils
    \/ BeginSbinUtils
    \/ SearchStep
    \/ CopyStep
    \/ QueryStep
    \/ ParseStep
    \/ LibraryStep
    \/ CatalogReturn

SpecSteps == InitSteps /\ [][NextSteps]_vars

(***************************************************************************)
(* Vocabulary of the properties.                                           *)
(***************************************************************************)
IsPrefix(a, b) == Len(a) <= Len(b) /\ SubSeq(b, 1, Len(a)) = a

\* the part of a filesystem under the location root
Under(f, root) == [x \in {l \in DOMAIN f : IsPrefix(root, l)} |-> f[x]]

\* the locations whose node differs between two filesystems
Changed(f, g) ==
    {l \in DOMAIN f \cup DOMAIN g : NodeAt(f, l) # NodeAt(g, l)}

LibCall == last.op = "copy_library"

\* the locations of the three candidates of a library path
CandLocs(lib) ==
    << AbsStr(R \o Components(lib)), AbsStr(R \o <<"usr">> \o Components(lib)),
       AbsStr(Components(lib)) >>

\* where the placement rule puts a library path
ExpectedDest(lib) ==
    LET names == Components(lib)
    IN  S \o <<"usr", IF ContainsLib64(lib) THEN "lib64" ELSE "lib",
               names[Len(names)]>>

\* the first candidate that stat finds, as a path string (<<>>: none)
FirstStat(f, lib) ==
    LET c == CandLocs(lib)
    IN  IF Exists(f, c[1]) THEN c[1]
        ELSE IF Exists(f, c[2]) THEN c[2]
        ELSE IF Exists(f, c[3]) THEN c[3]
        ELSE <<>>

\* the first candidate that is there as a directory entry (lstat)
IsEntry(f, p) == Lookup(f, p, FALSE).st = "found"

FirstEntry(f, lib) ==
    LET c == CandLocs(lib)
    IN  IF IsEntry(f, c[1]) THEN c[1]
        ELSE IF IsEntry(f, c[2]) THEN c[2]
        ELSE IF IsEntry(f, c[3]) THEN c[3]
        ELSE <<>>

\* the location a link's target designates, resolved from the directory
\* that holds the link
TargetLoc(f, link) ==
    LET l == Lookup(f, link, FALSE).loc
        t == NodeAt(f, l).target
    IN  Resolve(f, IF IsAbsolute(t) THEN <<>> ELSE SubSeq(l, 1, Len(l) - 1),
                Components(t), TRUE, MaxHops)

\* the link's target taken as a path under the source root
ReRooted(f, link) ==
    AbsStr(R \o Components(NodeAt(f, Lookup(f, link, FALSE).loc).target))

\* the calls of the per-binary entry points
OrchCall == last.op \in {"copy_binary_with_libs", "copy_sbin_binary_with_libs"}

BinaryCall == OrchCall \/ last.op = "copy_bash"

\* the binary is in one of the four search directories of the source
Found(f, binary) ==
    \E d \in {UsrBin, <<"bin">>, UsrSbin, <<"sbin">>} :
        Exists(f, AbsStr(R \o d \o <<binary>>))

\* bash is in one of the two directories copy_bash looks in
BashFound(f) ==
    \E d \in {UsrBin, <<"bin">>} : Exists(f, AbsStr(R \o d \o <<"bash">>))

\* the binary of the last call was found in the source
LastFound == IF last.op = "copy_bash" THEN BashFound(pre) ELSE Found(pre, last.binary)

\* the ldd run of the binary of the last call
LastRun == ldd[last.binary]

\* the libraries the report of that run names
LastLibs == parse_ldd_output(LastRun.stdout).libs

\* the last call reached its library loop
LoopRan ==
    /\ BinaryCall /\ LastFound /\ LastRun.spawned
    /\ last.op # "copy_bash" => LastRun.success

\* the last call logged that copying lib failed with this cause
Warned(lib, cause) ==
    \E k \in 1..Len(last.log) :
        last.log[k] = Warn("Failed to copy library", lib, cause)

\* the staging locations of libraries
IsLibLoc(l) ==
    IsPrefix(S \o <<"usr", "lib">>, l) \/ IsPrefix(S \o <<"usr", "lib64">>, l)

\* the directory a library lands in exists
DestDirExists(f, lib) ==
    IsDir(f, AbsStr(SubSeq(ExpectedDest(lib), 1, Len(ExpectedDest(lib)) - 1)))

(***************************************************************************)
(* C1: copy_binary_with_libs and copy_sbin_binary_with_libs return         *)
(* Ok(false) exactly when the binary is in none of the four search         *)
(* directories, and then change nothing; when the binary is found they     *)
(* return Ok(true) whatever happens to its libraries.                      *)
(***************************************************************************)
C1_BinaryResult ==
    OrchCall =>
      /\ (last.ok /\ ~last.val) <=> ~Found(pre, last.binary)
      /\ ~Found(pre, last.binary) => fs = pre
      /\ Found(pre, last.binary) => last.ok /\ last.val

\* the binary was found, one library could not be located and another
\* could not be copied, and the call returned Ok(true)
C1_Witness ==
    /\ OrchCall /\ Found(pre, last.binary) /\ last.ok /\ last.val
    /\ Warned(LibGone, "Could not find library")
    /\ Warned(LibC, "copy: bad destination")

(***************************************************************************)
(* C2 (as claimed): for copy_binary_with_libs, copy_sbin_binary_with_libs  *)
(* and copy_bash alike, when ldd cannot be started or exits nonzero its    *)
(* output is not parsed, no library is copied and the call does not fail.  *)
(***************************************************************************)
C2_LddFailureSkipsLibraries ==
    (BinaryCall /\ LastFound /\ ~(LastRun.spawned /\ LastRun.success)) =>
      /\ last.ok
      /\ last.log = <<>>
      /\ \A l \in Changed(pre, fs) : ~IsLibLoc(l)

CatalogOf(op) == IF op = "copy_coreutils" THEN COREUTILS ELSE SBIN_UTILS

CatalogDir(op) == IF op = "copy_coreutils" THEN UsrBin ELSE UsrSbin

SkipWarned(binary) ==
    \E k \in 1..Len(last.log) :
        last.log[k] = Warn("not found, skipping", <<binary>>, "")

C4_LibraryFailureIsolated ==
    LoopRan =>
      /\ last.ok
      /\ \A k \in 1..Len(LastLibs) :
           LET lib == LastLibs[k]
           IN  IF FirstStat(pre, lib) = <<>>
               THEN Warned(lib, "Could not find library")
               ELSE IF ~DestDirExists(pre, lib)
               THEN Warned(lib, "copy: bad destination")
               ELSE /\ NodeAt(fs, ExpectedDest(lib)).kind = "file"
                    /\ \A c \in {"Could not find library",
                                 "copy: bad destination"} : ~Warned(lib, c)

\* a library was copied by this call after one failure and before another
C4_Witness ==
    /\ LoopRan /\ last.ok
    /\ \E i, j, k \in 1..Len(LastLibs) :
         /\ i < j /\ j < k
         /\ Warned(LastLibs[i], "Could not find library")
         /\ Warned(LastLibs[k], "Could not find library")
         /\ ExpectedDest(LastLibs[j]) \in Changed(pre, fs)

(***************************************************************************)
(* C5: copy_library takes the first existing of origin root + path,        *)
(* origin root/usr + path, host path; the content it puts at the           *)
(* destination is that candidate's file.  With no candidate it fails with  *)
(* "Could not find library" and changes nothing.                           *)
(***************************************************************************)
C5_FirstExistingCandidate ==
    LibCall =>
      LET src == FirstStat(pre, last.lib)
      IN  /\ src = <<>> =>
                ~last.ok /\ last.err = "Could not find library" /\ fs = pre
          /\ src # <<>> => last.err # "Could not find library"
          /\ (src # <<>> /\ last.ok /\ fs # pre) =>
                NodeAt(fs, ExpectedDest(last.lib)).content
                    = FileAt(pre, src).content

\* the first candidate is absent, the second and the host path both exist,
\* and the copy was made
C5_Witness ==
    /\ LibCall /\ last.ok /\ fs # pre
    /\ ~Exists(pre, CandLocs(last.lib)[1])
    /\ Exists(pre, CandLocs(last.lib)[2])
    /\ Exists(pre, CandLocs(last.lib)[3])
    /\ FileAt(pre, CandLocs(last.lib)[2]).content
         # FileAt(pre, CandLocs(last.lib)[3]).content

(***************************************************************************)
(* C6 (as claimed): when the first candidate present in the source is a    *)
(* symbolic link whose target does not resolve where it points but does    *)
(* exist under the origin root, copy_library succeeds and the destination  *)
(* gets the re-rooted file; when the re-rooted path is missing too the     *)
(* call still does not fail.                                               *)
(***************************************************************************)
C6_ReRootFallback ==
    (LibCall /\ ~Exists(pre, AbsStr(ExpectedDest(last.lib)))
       /\ Exists(pre, AbsStr(SubSeq(ExpectedDest(last.lib), 1, 4)))) =>
      LET src == FirstEntry(pre, last.lib)
      IN  (src # <<>> /\ IsSymlink(pre, src)
             /\ TargetLoc(pre, src).st # "found") =>
            /\ last.ok
            /\ Exists(pre, ReRooted(pre, src)) =>
                 NodeAt(fs, ExpectedDest(last.lib)).kind = "file"
                 /\ NodeAt(fs, ExpectedDest(last.lib)).content
                      = FileAt(pre, ReRooted(pre, src)).content

(***************************************************************************)
(* C7: a chosen source that is a link with a relative target is copied     *)
(* from the target resolved in the directory holding the link, not in the  *)
(* working directory nor at the top of the origin root.                    *)
(***************************************************************************)
C7_RelativeToLinkDir ==
    LibCall =>
      LET src == FirstStat(pre, last.lib)
      IN  (src # <<>> /\ last.ok /\ fs # pre /\ IsSymlink(pre, src)
             /\ ~IsAbsolute(ReadLink(pre, src))) =>
            /\ TargetLoc(pre, src).st = "found"
            /\ NodeAt(fs, ExpectedDest(last.lib)).content
                 = TargetLoc(pre, src).loc
            /\ NodeAt(fs, ExpectedDest(last.lib)).content
                 \notin {Cwd \o Components(ReadLink(pre, src)),
                         R \o Components(ReadLink(pre, src))}

\* the link /rootfs/usr/lib64/libc.so.6 -> libc-2.34.so was the source
C7_Witness ==
    /\ LibCall /\ last.ok /\ fs # pre /\ last.lib = LibC
    /\ IsSymlink(pre, CandLocs(LibC)[1])
    /\ ReadLink(pre, CandLocs(LibC)[1]) = <<"libc-2.34.so">>
    /\ NodeAt(fs, ExpectedDest(LibC)).content
         = R \o <<"usr", "lib64", "libc-2.34.so">>

(***************************************************************************)
(* C8: the only place copy_library writes is staging/usr/lib64/<name> for  *)
(* a path containing "lib64" and staging/usr/lib/<name> for any other,     *)
(* whatever candidate or link target supplied the content.                 *)
(***************************************************************************)
C8_DestinationPlacement ==
    LibCall =>
      /\ Changed(pre, fs) \subseteq {ExpectedDest(last.lib)}
      /\ (last.ok /\ FirstStat(pre, last.lib) # <<>>) =>
            NodeAt(fs, ExpectedDest(last.lib)).kind = "file"

\* /usr/lib/lib64z.so.1 went to usr/lib64, /usr/lib/libfoo.so to usr/lib
C8_Witness ==
    /\ LibCall /\ last.ok /\ last.lib = LibFoo
    /\ Changed(pre, fs) = {S \o <<"usr", "lib", "libfoo.so">>}
    /\ NodeAt(fs, S \o <<"usr", "lib64", "lib64z.so.1">>).kind = "file"
    /\ NodeAt(fs, S \o <<"usr", "lib64", "lib64z.so.1">>).content
         = R \o <<"usr", "lib", "lib64z.so.1">>

(***************************************************************************)
(* C9 (as claimed): two library paths that denote different source files   *)
(* never have the same destination in staging.                             *)
(***************************************************************************)
C9_NoDestinationCollision ==
    LibCall =>
      \A other \in LibPaths :
        LET a == FirstStat(pre, last.lib)
            b == FirstStat(pre, other)
        IN  (a # <<>> /\ b # <<>>
               /\ Lookup(pre, a, TRUE).loc # Lookup(pre, b, TRUE).loc) =>
              ExpectedDest(last.lib) # ExpectedDest(other)

(***************************************************************************)
(* C10: when the destination of a library already exists in staging,       *)
(* copy_library copies nothing: the whole filesystem is as before,         *)
(* whichever source the path resolves to.                                  *)
(***************************************************************************)
C10_FirstWriterWins ==
    (LibCall /\ Exists(pre, AbsStr(ExpectedDest(last.lib)))) => fs = pre

\* the destination held another file than the one the path resolves to
C10_Witness ==
    /\ LibCall /\ last.ok /\ fs = pre
    /\ FirstStat(pre, last.lib) # <<>>
    /\ NodeAt(pre, ExpectedDest(last.lib)).kind = "file"
    /\ NodeAt(pre, ExpectedDest(last.lib)).content
         # FileAt(pre, FirstStat(pre, last.lib)).content
    /\ NodeAt(pre, ExpectedDest(last.lib)).content # <<"old libc">>

C12_NeverOverwrites ==
    \A l \in DOMAIN pre :
        (IsPrefix(S, l) /\ NodeAt(pre, l).kind = "file") =>
            NodeAt(fs, l) = NodeAt(pre, l)

(***************************************************************************)
(* C13: when the dependency query fails for some binaries of a catalog,    *)
(* the catalog copy still returns Ok, every binary of the catalog found    *)
(* in the source is in staging, and so is every locatable library of       *)
(* every binary whose query succeeded.                                     *)
(***************************************************************************)
CatalogCall == last.op \in {"copy_coreutils", "copy_sbin_utils"}

QueryOk(b) == ldd[b].spawned /\ ldd[b].success

C13_QueryFailureIsolated ==
    CatalogCall =>
      /\ last.ok
      /\ \A k \in 1..Len(CatalogOf(last.op)) :
           LET b == CatalogOf(last.op)[k]
               libs == parse_ldd_output(ldd[b].stdout).libs
           IN  Found(pre, b) =>
                 /\ NodeAt(fs, S \o CatalogDir(last.op) \o <<b>>).kind = "file"
                 /\ QueryOk(b) =>
                      \A i \in 1..Len(libs) :
                          FirstStat(pre, libs[i]) # <<>> =>
                              NodeAt(fs, ExpectedDest(libs[i])).kind = "file"

\* the query failed for the first binary of the catalog and the second
\* binary and two of its libraries were copied by this call
C13_Witness ==
    /\ CatalogCall /\ last.ok
    /\ LET a == CatalogOf(last.op)[1]
           b == CatalogOf(last.op)[2]
       IN  /\ Found(pre, a) /\ Found(pre, b)
           /\ ~QueryOk(a) /\ QueryOk(b)
           /\ {S \o CatalogDir(last.op) \o <<a>>,
               S \o CatalogDir(last.op) \o <<b>>, ExpectedDest(LibFoo),
               ExpectedDest(LibC)} \subseteq Changed(pre, fs)

(***************************************************************************)
(* C14: starting from a staging tree that holds no file, after any         *)
(* sequence of calls every file in staging is the copy of a requested      *)
(* binary found in the source, at <dest_dir>/<name>, or is at              *)
(* usr/lib64/<file name> or usr/lib/<file name> for a path the parser      *)
(* returned for such a binary.                                             *)
(***************************************************************************)
HoldsNoFile(f, root) ==
    \A l \in DOMAIN f : IsPrefix(root, l) => f[l].kind = "dir"

\* where the libraries parsed for a binary may land
LibDests(b) ==
    LET libs == parse_ldd_output(ldd[b].stdout).libs
    IN  UNION {{S \o <<"usr", d, FileName(libs[i]).val>> : d \in {"lib", "lib64"}}
                 : i \in 1..Len(libs)}

\* the files one per-binary call may create
BinaryProvenance(b, dir, needsSuccess) ==
    IF ~Found(fs0, b) THEN {}
    ELSE {S \o dir \o <<b>>}
         \cup (IF ldd[b].spawned /\ (needsSuccess => ldd[b].success)
               THEN LibDests(b) ELSE {})

Provenance(call) ==
    CASE call.op = "copy_binary_with_libs" ->
             BinaryProvenance(call.binary, UsrBin, TRUE)
      [] call.op = "copy_sbin_binary_with_libs" ->
             BinaryProvenance(call.binary, UsrSbin, TRUE)
      [] call.op = "copy_bash" ->
             IF BashFound(fs0) THEN BinaryProvenance("bash", UsrBin, FALSE)
             ELSE {}
      [] call.op = "copy_coreutils" ->
             UNION {BinaryProvenance(COREUTILS[k], UsrBin, TRUE)
                      : k \in 1..Len(COREUTILS)}
      [] call.op = "copy_sbin_utils" ->
             UNION {BinaryProvenance(SBIN_UTILS[k], UsrSbin, TRUE)
                      : k \in 1..Len(SBIN_UTILS)}
      [] OTHER -> {}

C14_Provenance ==
    HoldsNoFile(fs0, S) =>
      \A l \in DOMAIN fs :
          (IsPrefix(S, l) /\ fs[l].kind = "file") =>
              l \in UNION {Provenance(c) : c \in calls}

\* two different calls put two binaries and two libraries into a staging
\* tree that held directories only
C14_Witness ==
    /\ HoldsNoFile(fs0, S) /\ Cardinality(calls) = 2
    /\ Cardinality({l \in DOMAIN fs : IsPrefix(S, l) /\ fs[l].kind = "file"
                                      /\ ~IsLibLoc(l)}) >= 2
    /\ Cardinality({l \in DOMAIN fs : IsPrefix(S, l) /\ fs[l].kind = "file"
                                      /\ IsLibLoc(l)}) >= 2

(***************************************************************************)
(* C15 (as claimed): the source holds /usr/bin/ls, its report names the    *)
(* single library /usr/lib64/libc.so.6, a symbolic link to libc-2.34.so;   *)
(* after copy_binary_with_libs(ls, usr/bin) staging holds usr/bin/ls with  *)
(* mode 0755 and usr/lib64/libc-2.34.so, and one reference was parsed.     *)
(***************************************************************************)
LsScenario ==
    /\ last.op = "copy_binary_with_libs" /\ last.binary = "ls"
    /\ NodeAt(pre, R \o UsrBin \o <<"ls">>).kind = "file"
    /\ QueryOk("ls") /\ ldd["ls"].stdout = ReportOne
    /\ NodeAt(pre, R \o <<"usr", "lib64", "libc.so.6">>)
         = Symlink(<<"libc-2.34.so">>)
    /\ NodeAt(pre, R \o <<"usr", "lib64", "libc-2.34.so">>).kind = "file"
    /\ HoldsNoFile(pre, S)

LsInstalled ==
    /\ last.ok /\ last.val
    /\ NodeAt(fs, S \o UsrBin \o <<"ls">>)
         = File(R \o UsrBin \o <<"ls">>, Mode755)
    /\ Len(LastLibs) = 1

C15_TargetNameInStaging ==
    LsScenario =>
      /\ LsInstalled
      /\ NodeAt(fs, S \o <<"usr", "lib64", "libc-2.34.so">>).kind = "file"

(***************************************************************************)
(* C15 (amended): in that scenario, the link being libc.so.6 ->            *)
(* libc-2.34.so in the same directory, staging holds usr/bin/ls with mode  *)
(* 0755 and one reference was parsed; the library is stored under the      *)
(* requested name, usr/lib64/libc.so.6, as a regular file with the content *)
(* of libc-2.34.so, provided staging/usr/lib64 exists (otherwise the copy  *)
(* fails with a warning and no library is stored); usr/lib64/libc-2.34.so  *)
(* is never created.                                                       *)
(***************************************************************************)
C15_RequestedNameInStaging ==
    LsScenario =>
      /\ LsInstalled
      /\ NodeAt(fs, S \o <<"usr", "lib64", "libc-2.34.so">>).kind = "none"
      /\ IF DestDirExists(pre, LibC)
         THEN /\ NodeAt(fs, S \o <<"usr", "lib64", "libc.so.6">>)
                   = File(R \o <<"usr", "lib64", "libc-2.34.so">>, SrcMode)
              /\ last.log = <<>>
         ELSE /\ NodeAt(fs, S \o <<"usr", "lib64", "libc.so.6">>).kind = "none"
              /\ last.log = <<Warn("Failed to copy library", LibC,
                                   "copy: bad destination")>>

\* the scenario on a staging tree with the FHS directories: ls and the
\* library were copied by this call
C15_Witness ==
    /\ LsScenario /\ DestDirExists(pre, LibC)
    /\ Changed(pre, fs) = {S \o UsrBin \o <<"ls">>,
                           S \o <<"usr", "lib64", "libc.so.6">>}

(***************************************************************************)
(* Vocabulary of the parser properties.                                    *)
(***************************************************************************)
\* the lines of the text that was parsed
TextLines == Lines(text)

\* the position of the first "=>" of a line that has one
ArrowAt(l) ==
    CHOOSE i \in 1..Len(l) : l[i] = "=>" /\ \A j \in 1..(i - 1) : l[j] # "=>"

\* everything after the first "=>"
AfterArrow(l) == SubSeq(l, ArrowAt(l) + 1, Len(l))

\* what lies between the first "=>" and the next one (or the end)
BetweenArrows(l) ==
    LET a == AfterArrow(l)
    IN  IF ContainsArrow(a) THEN SubSeq(a, 1, ArrowAt(a) - 1) ELSE a

\* the first whitespace-delimited token of a string (<<>>: there is none)
WsToken(s) ==
    LET nw == {i \in 1..Len(s) : ~IsWhite(s[i])}
    IN  IF nw = {} THEN <<>>
        ELSE LET a == CHOOSE i \in nw : \A j \in nw : i <= j
                 run == {j \in a..Len(s) : \A k \in a..j : ~IsWhite(s[k])}
                 b == CHOOSE j \in run : \A k \in run : k <= j
             IN  SubSeq(s, a, b)

\* the token as a one-element result if it begins with '/', else nothing
IfPath(tok) == IF StartsWithSlash(tok) THEN <<tok>> ELSE <<>>

\* the results expected line by line, one after the other
Expected(Y(_)) == Flatten([k \in 1..Len(TextLines) |-> Y(TextLines[k])])

\* every line of the text is an arrow line without "not found"
ArrowLinesOnly ==
    \A k \in 1..Len(TextLines) :
        ContainsArrow(TextLines[k]) /\ ~ContainsNotFound(TextLines[k])

(***************************************************************************)
(* C16 (as claimed): a line with "=>" and without "not found" yields the   *)
(* first whitespace-delimited token following the first "=>" when that     *)
(* token begins with '/', and nothing otherwise.                           *)
(***************************************************************************)
C16_TokenAfterArrow ==
    (parsed.called /\ ArrowLinesOnly) =>
        parsed.libs = Expected(LAMBDA l : IfPath(WsToken(AfterArrow(l))))

(***************************************************************************)
(* C16 (amended): such a line yields the first whitespace-delimited token  *)
(* of the text between the first "=>" and the next "=>" (or the end of     *)
(* the line) when that token begins with '/', and nothing otherwise.       *)
(***************************************************************************)
C16_TokenBetweenArrows ==
    (parsed.called /\ ArrowLinesOnly) =>
        parsed.libs = Expected(LAMBDA l : IfPath(WsToken(BetweenArrows(l))))

\* an address after the arrow gave nothing, a path gave the path, and of
\* "/usr/lib64/libc.so.6=>/usr/lib/libfoo.so" the part before the second
\* arrow was taken
C16_Witness ==
    /\ parsed.called
    /\ TextLines = <<LineArrowAddress, LineArrowPath, LineTwoArrows>>
    /\ parsed.libs = <<LibC, LibC>>

(***************************************************************************)
(* C17: a line containing "not found" contributes no path, whatever else   *)
(* it contains: the result is the one the text gives without those lines,  *)
(* so the lines after them are parsed as ever; parse_ldd_output returns    *)
(* Ok for every text, and logs one warning for each such line that has a   *)
(* token.                                                                  *)
(***************************************************************************)
\* the text without its lines containing "not found"
WithoutNotFound ==
    Flatten([k \in 1..Len(TextLines) |->
               IF ContainsNotFound(TextLines[k]) THEN <<>>
               ELSE Append(TextLines[k], "\n")])

NotFoundLines == {k \in 1..Len(TextLines) : ContainsNotFound(TextLines[k])}

C17_NotFoundYieldsNothing ==
    parsed.called =>
      /\ parsed.ok
      /\ parsed.libs = parse_ldd_output(WithoutNotFound).libs
      /\ (\A k \in 1..Len(TextLines) : ContainsNotFound(TextLines[k])) =>
            parsed.libs = <<>>
      /\ Len(parsed.warn) = Cardinality(NotFoundLines)

\* a not-found line naming a path after its arrow stands between two lines
\* that yield a path each: only these two are in the result
C17_Witness ==
    /\ parsed.called /\ parsed.ok
    /\ TextLines = <<LineArrowPath, LineArrowPathNotFound, LineSelfEntry>>
    /\ parsed.libs = <<LibC, AbsStr(<<"lib64", "ld-linux.so.2">>)>>
    /\ Len(parsed.warn) = 1

(***************************************************************************)
(* C18 (as claimed): a line without "=>" whose trimmed text begins with    *)
(* '/' yields its leading whitespace-delimited token; a line with neither  *)
(* "not found", nor "=>", nor a leading '/' yields nothing; every element  *)
(* of the result begins with '/'.                                          *)
(***************************************************************************)
NoArrowLines == \A k \in 1..Len(TextLines) : ~ContainsArrow(TextLines[k])

NoNotFoundLines == \A k \in 1..Len(TextLines) : ~ContainsNotFound(TextLines[k])

\* the leading token of a line whose trimmed text begins with '/'
SelfEntry(l) == IfPath(WsToken(l))

AllBeginWithSlash ==
    \A i \in 1..Len(parsed.libs) : StartsWithSlash(parsed.libs[i])

C18_SlashLineYieldsToken ==
    parsed.called =>
      /\ NoArrowLines => parsed.libs = Expected(SelfEntry)
      /\ AllBeginWithSlash

(***************************************************************************)
(* C18 (amended): a line with neither "=>" nor "not found" whose trimmed   *)
(* text begins with '/' yields its leading whitespace-delimited token; a   *)
(* line with neither "not found", nor "=>", nor a leading '/' yields       *)
(* nothing; every element of the result begins with '/'.                   *)
(***************************************************************************)
C18_SelfEntryRule ==
    parsed.called =>
      /\ (NoArrowLines /\ NoNotFoundLines) => parsed.libs = Expected(SelfEntry)
      /\ AllBeginWithSlash

\* the linker's own entry gave its path; the line with a soname and an
\* address and the blank line gave nothing
C18_Witness ==
    /\ parsed.called
    /\ TextLines = <<LineOther, LineSelfEntry, LineBlank>>
    /\ parsed.libs = <<AbsStr(<<"lib64", "ld-linux.so.2">>)>>

(***************************************************************************)
(* C19: the result of parse_ldd_output is the concatenation, in line       *)
(* order, of what each line yields on its own (nothing or one path); a     *)
(* path named on several lines is in the result once for each.             *)
(***************************************************************************)
\* what a line yields when it is parsed alone
AloneYield(l) == parse_ldd_output(Append(l, "\n")).libs

\* the number of places of a sequence that hold x
Count(seq, x) == Cardinality({i \in 1..Len(seq) : seq[i] = x})

C19_LineOrderNoDedup ==
    parsed.called =>
      /\ parsed.libs = Expected(AloneYield)
      /\ \A k \in 1..Len(TextLines) : Len(AloneYield(TextLines[k])) <= 1
      /\ \A i \in 1..Len(parsed.libs) :
            Count(parsed.libs, parsed.libs[i])
              = Cardinality({k \in 1..Len(TextLines) :
                               AloneYield(TextLines[k]) = <<parsed.libs[i]>>})

\* /usr/lib64/libc.so.6 is named before and after /usr/lib/libfoo.so and
\* is in the result twice, in these places
C19_Witness ==
    /\ parsed.called
    /\ TextLines = <<LineArrowPath, LineSlashArrow, LineArrowPath>>
    /\ parsed.libs = <<LibC, LibFoo, LibC>>

(***************************************************************************)
(* C20 (as claimed): find_binary returns the first existing of usr/bin,    *)
(* bin, usr/sbin, sbin under the root; find_sbin_binary the first          *)
(* existing of the same four in the reverse order (sbin, usr/sbin, bin,    *)
(* usr/bin); each returns None exactly when no candidate exists, and the   *)
(* filesystem is unchanged.                                                *)
(***************************************************************************)
SearchCall == last.op \in {"find_binary", "find_sbin_binary"}

UserOrder == <<UsrBin, <<"bin">>, UsrSbin, <<"sbin">>>>

ReverseOf(order) == [i \in 1..Len(order) |-> order[Len(order) + 1 - i]]

\* the candidate of the directory dir for the binary searched
CandidateIn(dir) == AbsStr(R \o dir \o <<last.binary>>)

\* the search returned the first existing candidate of the order, or None
\* when none exists
ReturnedFirstOf(order) ==
    LET ex == {i \in 1..Len(order) : Exists(pre, CandidateIn(order[i]))}
    IN  /\ last.val <=> ex # {}
        /\ ex # {} =>
              last.lib = CandidateIn(order[CHOOSE i \in ex : \A j \in ex : i <= j])
        /\ fs = pre

C20_SbinReverseOrder ==
    SearchCall =>
      IF last.op = "find_binary" THEN ReturnedFirstOf(UserOrder)
      ELSE ReturnedFirstOf(ReverseOf(UserOrder))

(***************************************************************************)
(* C20 (amended): find_binary returns the first existing of usr/bin, bin,  *)
(* usr/sbin, sbin under the root; find_sbin_binary the first existing of   *)
(* usr/sbin, sbin, usr/bin, bin; each returns None exactly when no         *)
(* candidate exists, and the filesystem is unchanged.                      *)
(***************************************************************************)
C20_SearchOrder ==
    SearchCall =>
      IF last.op = "find_binary" THEN ReturnedFirstOf(UserOrder)
      ELSE ReturnedFirstOf(<<UsrSbin, <<"sbin">>, UsrBin, <<"bin">>>>)

\* ls is in usr/sbin, sbin and bin, and usr/bin/ls is a dangling link:
\* find_sbin_binary returned the one in usr/sbin
C20_Witness ==
    /\ last.op = "find_sbin_binary" /\ last.val
    /\ IsSymlink(pre, CandidateIn(UsrBin)) /\ ~Exists(pre, CandidateIn(UsrBin))
    /\ \A d \in {<<"bin">>, UsrSbin, <<"sbin">>} : Exists(pre, CandidateIn(d))
    /\ last.lib = CandidateIn(UsrSbin)

(***************************************************************************)
(* C21: whenever copy_binary_with_libs, copy_sbin_binary_with_libs or      *)
(* copy_bash copies a binary into staging, the destination is a file of    *)
(* mode 0755 with the content of the source found, whatever mode the       *)
(* source file has.                                                        *)
(***************************************************************************)
\* where the last call puts its binary
BinaryDest ==
    S \o (IF last.op = "copy_sbin_binary_with_libs" THEN UsrSbin ELSE UsrBin)
      \o <<last.binary>>

\* the file of the source the last call's search finds
SourceFound ==
    LET order == IF last.op = "copy_sbin_binary_with_libs"
                 THEN <<UsrSbin, <<"sbin">>, UsrBin, <<"bin">>>>
                 ELSE IF last.op = "copy_bash" THEN <<UsrBin, <<"bin">>>>
                 ELSE <<UsrBin, <<"bin">>, UsrSbin, <<"sbin">>>>
        ex == {i \in 1..Len(order) : Exists(pre, CandidateIn(order[i]))}
    IN  FileAt(pre, CandidateIn(order[CHOOSE i \in ex : \A j \in ex : i <= j]))

\* the last call copied its binary
BinaryCopied ==
    /\ BinaryCall /\ LastFound
    /\ last.op = "copy_bash" \/ ~Exists(pre, AbsStr(BinaryDest))

C21_CopiedBinaryIs0755 ==
    BinaryCopied =>
        NodeAt(fs, BinaryDest) = File(SourceFound.content, Mode755)

\* binaries of mode 0700 and of mode 0555 were copied
C21_Witness ==
    /\ BinaryCopied /\ BinaryDest \in Changed(pre, fs)
    /\ SourceFound.mode = 5 * 64 + 5 * 8 + 5
    /\ NodeAt(fs, BinaryDest).mode = Mode755
    /\ NodeAt(fs, S \o UsrBin \o <<"bash">>)
         = File(R \o <<"bin", "bash">>, Mode755)

(***************************************************************************)
(* C22 (as claimed): before any copy into staging, of a binary or of a     *)
(* library, the destination's directory is created with its ancestors: it  *)
(* exists when the call returns, and no copy fails for want of it.         *)
(***************************************************************************)
\* the directory of the last call's binary exists
BinaryDirCreated ==
    IsDir(fs, AbsStr(SubSeq(BinaryDest, 1, Len(BinaryDest) - 1)))

\* the directory of a library of the last call exists and its copy did
\* not fail for want of it
LibraryDirCreated(lib) ==
    /\ DestDirExists(fs, lib)
    /\ ~Warned(lib, "copy: bad destination")

C22_DirectoryCreatedBeforeCopy ==
    (BinaryCall /\ LastFound) =>
      /\ BinaryDirCreated
      /\ LoopRan =>
            \A k \in 1..Len(LastLibs) :
                FirstStat(pre, LastLibs[k]) # <<>> => LibraryDirCreated(LastLibs[k])

(***************************************************************************)
(* C23 (as claimed): build returns an error only when the source root      *)
(* does not exist, the output/staging tree cannot be created, or the       *)
(* archiving subprocess fails; nothing that happens while binaries and     *)
(* libraries are materialized makes build return an error.                 *)
(***************************************************************************)
BuildDone == last.op = "build"

SourceMissing == ~Exists(pre, SourceRoot)

\* something other than a directory stands where the output tree goes
OutputBlocked == Exists(pre, OutputDir) /\ ~IsDir(pre, OutputDir)

\* tar could not be started or exited nonzero
ArchiveFailed == ~ldd["tar"].spawned \/ ~ldd["tar"].success

C23_OnlyThreeFatalCauses ==
    (BuildDone /\ ~last.ok) =>
      \/ SourceMissing /\ last.err = "Source directory does not exist"
      \/ OutputBlocked /\ last.err = "mkdir failed"
      \/ ArchiveFailed /\ last.err \in {"Failed to run tar command",
                                        "tar command failed with status"}

(***************************************************************************)
(* C24 (as claimed): with a listing at hand, verify_tarball succeeds       *)
(* exactly when each of the seven essential names is an entry of the       *)
(* tarball's listing.                                                      *)
(***************************************************************************)
VerifyDone == last.op = "verify_tarball"

\* the listing has an entry of that name
IsListed(name) ==
    \E k \in 1..Len(Lines(ldd["tar"].stdout)) : Lines(ldd["tar"].stdout)[k] = name

AllEssentialListed ==
    \A i \in 1..Len(essential_files) : IsListed(essential_files[i])

C24_SucceedsIffAllListed ==
    (VerifyDone /\ ldd["tar"].spawned /\ ldd["tar"].success) =>
      (last.ok <=> AllEssentialListed)

(***************************************************************************)
(* C25: whatever entry points of the materializer have been called, the    *)
(* tree under the source root is what it was before the first call, and    *)
(* the fields of the BuildContext have the values given at construction.   *)
(***************************************************************************)
C25_SourceAndContextUntouched ==
    /\ Under(fs, R) = Under(fs0, R)
    /\ ctx = NewContext

\* two calls have been made, the last one copied a binary of the source
\* into staging, and a library of its report has been copied as well
C25_Witness ==
    /\ steps = 2 /\ OrchCall /\ LastFound /\ LoopRan
    /\ BinaryDest \in Changed(pre, fs)
    /\ \E k \in 1..Len(LastLibs) : ExpectedDest(LastLibs[k]) \in Changed(fs0, fs)
    /\ Changed(fs0, pre) # {}
    /\ Under(fs, R) = Under(fs0, R)

(***************************************************************************)
(* C27 (as claimed): when ldd cannot be started or exits nonzero for a     *)
(* binary that was found, the orchestrator prints a warning for that       *)
(* binary.                                                                 *)
(***************************************************************************)
C27_QueryFailureWarned ==
    (OrchCall /\ LastFound /\ ~QueryOk(last.binary)) => last.log # <<>>

(***************************************************************************)
(* C28: copy_library looks for its source first: when none of the          *)
(* candidates exists it fails with 'Could not find library' and leaves     *)
(* the filesystem as it was, whether or not the destination is already in  *)
(* staging.                                                                *)
(***************************************************************************)
C28_SourceLocatedFirst ==
    (LibCall /\ FirstStat(pre, last.lib) = <<>>) =>
      /\ ~last.ok
      /\ last.err = "Could not find library"
      /\ fs = pre

\* no candidate exists and the destination is a file of an earlier run
C28_Witness ==
    /\ LibCall /\ FirstStat(pre, last.lib) = <<>>
    /\ NodeAt(pre, ExpectedDest(last.lib)).kind = "file"
    /\ ~last.ok /\ fs = pre

(***************************************************************************)
(* C29: the candidates of copy_library are tested through links, so a      *)
(* link that does not resolve is passed over for the next candidate; when  *)
(* the chosen source is a link, the target read from it exists and is      *)
(* what is copied, so that neither the re-root nor the literal-copy        *)
(* branch is taken.                                                        *)
(***************************************************************************)
\* the chosen source of the last call is a link
ChosenIsLink ==
    FirstStat(pre, last.lib) # <<>> /\ IsSymlink(pre, FirstStat(pre, last.lib))

\* the path copy_library computes from the chosen link
ChosenTarget ==
    ActualSrc(FirstStat(pre, last.lib), ReadLink(pre, FirstStat(pre, last.lib)))

C29_DanglingLinkNeverChosen ==
    LibCall =>
      /\ FirstStat(pre, last.lib) = <<>> => ~last.ok /\ fs = pre
      /\ ChosenIsLink =>
           /\ Exists(pre, ChosenTarget)
           /\ (~Exists(pre, AbsStr(ExpectedDest(last.lib)))
               /\ DestDirExists(pre, last.lib)) =>
                 /\ last.ok
                 /\ NodeAt(fs, ExpectedDest(last.lib))
                      = NodeAt(pre, Lookup(pre, ChosenTarget, TRUE).loc)
      /\ (FirstStat(pre, last.lib) # <<>> /\ ~ChosenIsLink
          /\ ~Exists(pre, AbsStr(ExpectedDest(last.lib)))
          /\ DestDirExists(pre, last.lib)) =>
            /\ last.ok
            /\ NodeAt(fs, ExpectedDest(last.lib))
                 = NodeAt(pre, Lookup(pre, FirstStat(pre, last.lib), TRUE).loc)

\* the first candidate that is a directory entry is a link to nothing, a
\* later candidate exists and has been copied
C29_Witness ==
    /\ LibCall /\ last.ok
    /\ FirstEntry(pre, last.lib) # <<>>
    /\ IsSymlink(pre, FirstEntry(pre, last.lib))
    /\ ~Exists(pre, FirstEntry(pre, last.lib))
    /\ FirstStat(pre, last.lib) \notin {<<>>, FirstEntry(pre, last.lib)}
    /\ ExpectedDest(last.lib) \in Changed(pre, fs)

(***************************************************************************)
(* C30: build removes a staging directory left by an earlier run and       *)
(* makes it anew, so nothing of the old tree is seen by build_rootfs;      *)
(* when build succeeds the staging directory is gone and the returned      *)
(* path is <output>/levitateos-stage3.tar.xz; when build_rootfs or tar     *)
(* fails, build returns the error and the staging directory stays.         *)
(***************************************************************************)
\* a file of the staging tree of the earlier run is still there
OldFileIn(f) ==
    \E e \in UsedEntries : e[2].kind = "file" /\ NodeAt(f, e[1]) = e[2]

\* the errors of build_rootfs and of the tar step
RootfsOrTarErrors ==
    {"Could not find bash in source rootfs", "Failed to run ldd",
     "Failed to run tar command", "tar command failed with status"}

C30_StagingLifecycle ==
    BuildDone =>
      /\ last.ok =>
           /\ ~IsEntry(fs, ctx.staging)
           /\ last.lib = Join(OutputDir, TarballName)
           /\ NodeAt(fs, <<"out">> \o TarballName).kind = "file"
      /\ (~SourceMissing /\ ~OutputBlocked) => ~OldFileIn(fs)
      /\ last.err \in RootfsOrTarErrors =>
           /\ ~last.ok
           /\ IsDir(fs, ctx.staging)
           /\ IsSymlink(fs, Join(ctx.staging, <<"bin">>))

\* a build over the staging tree of an earlier run succeeded
C30_Witness ==
    /\ BuildDone /\ last.ok
    /\ IsDir(pre, ctx.staging) /\ OldFileIn(pre)
    /\ ~IsEntry(fs, ctx.staging)
    /\ last.lib = Join(OutputDir, TarballName)

(***************************************************************************)
(* C26: for each binary the steps come in the order search, copy of the    *)
(* binary (present exactly when the destination was absent), dependency    *)
(* query, parse, then one copy per library in the order of the parsed      *)
(* list; and in a catalog the search for the next binary begins only       *)
(* after the last library copy of the one before.                          *)
(***************************************************************************)
\* the catalogs in the order build_rootfs goes through them
CatalogOrder == COREUTILS \o SBIN_UTILS

PlaceOf(b) == CHOOSE i \in 1..Len(CatalogOrder) : CatalogOrder[i] = b

\* the libraries of the report of a binary, in parsed order
ParsedLibs(b) == parse_ldd_output(ldd[b].stdout).libs

\* the staging location of a catalog binary
CatalogDest(b) ==
    S \o (IF PlaceOf(b) <= Len(COREUTILS) THEN UsrBin ELSE UsrSbin) \o <<b>>

\* step n is the search for the binary after the one of step e
SearchOfNext(e, n) ==
    /\ n.kind = "search"
    /\ PlaceOf(n.binary) = PlaceOf(e.binary) + 1

\* step n may come right after step e
Follows(e, n) ==
    IF e.kind = "search"
    THEN \/ SearchOfNext(e, n) /\ ~Found(fs0, e.binary)
         \/ /\ n.binary = e.binary
            /\ n.kind = IF Exists(fs0, AbsStr(CatalogDest(e.binary)))
                        THEN "query" ELSE "copy"
    ELSE IF e.kind = "copy"
    THEN n.kind = "query" /\ n.binary = e.binary
    ELSE IF e.kind = "query"
    THEN \/ n.kind = "parse" /\ n.binary = e.binary /\ QueryOk(e.binary)
         \/ SearchOfNext(e, n) /\ ~QueryOk(e.binary)
    ELSE IF e.kind = "parse"
    THEN \/ /\ n.kind = "library" /\ n.binary = e.binary /\ n.k = 1
         \/ SearchOfNext(e, n) /\ ParsedLibs(e.binary) = <<>>
    ELSE \/ /\ n.kind = "library" /\ n.binary = e.binary /\ n.k = e.k + 1
         \/ SearchOfNext(e, n) /\ e.k = Len(ParsedLibs(e.binary))

C26_PipelineOrder ==
    /\ pc.trace # <<>> =>
         pc.trace[1].kind = "search" /\ pc.trace[1].binary = CatalogOrder[1]
    /\ \A i \in 1..Len(pc.trace) :
         /\ pc.trace[i].kind = "library" =>
              /\ pc.trace[i].k \in 1..Len(ParsedLibs(pc.trace[i].binary))
              /\ pc.trace[i].lib = ParsedLibs(pc.trace[i].binary)[pc.trace[i].k]
         /\ i < Len(pc.trace) => Follows(pc.trace[i], pc.trace[i + 1])

\* both catalogs have been gone through: a binary was copied and had
\* several libraries, and a binary that was already in staging was queried
\* without being copied
C26_Witness ==
    /\ pc.at = "done"
    /\ \E i, j \in 1..Len(pc.trace) :
         /\ pc.trace[i].kind = "copy"
         /\ pc.trace[j].kind = "library" /\ pc.trace[j].binary = pc.trace[i].binary
         /\ pc.trace[j].k = 3
    /\ \E i \in 1..(Len(pc.trace) - 1) :
         /\ pc.trace[i].kind = "search" /\ pc.trace[i + 1].kind = "query"
    /\ \E i \in 1..(Len(pc.trace) - 1) :
         /\ pc.trace[i].kind = "library" /\ pc.trace[i + 1].kind = "search"

====
